---- MODULE Spec2Model ----
(***************************************************************************)
(* A model of the Lua/Luau source transformers of this repository: the     *)
(* four tokenizers (lua_tokenizer.py, minify.py, beautify.py,              *)
(* deobfuscate.py), the minifier, and the de-obfuscation pipeline.         *)
(*                                                                         *)
(* A text is a sequence of characters, a character a string of length 1.   *)
(* Positions are Python's: `pos` is the number of characters consumed, so  *)
(* the character under the cursor is code[pos + 1].  A token is the record *)
(* [type, value]; the line and column fields of the Token classes are not  *)
(* read by any pass and are left out.                                      *)
(***************************************************************************)
EXTENDS Integers, Sequences, FiniteSets, TLC

\* ------------------------------------------------------------------ bounds

\* longest text of the exhaustive tokenizer inputs (all texts over TokAlphabet)
MaxTextLen == 4
\* highest long-bracket level of the structured tokenizer inputs
MaxLevel == 2
\* longest body between a long-bracket opener and closer
MaxBodyLen == 2
\* most pieces in an input of minify
MaxFragments == 3
\* most declared locals in an input of rename
MaxLocals == 568
\* most lines in an input of propagate
MaxLines == 3
\* deepest nesting of load calls in an input of deobfuscate_internal
MaxNest == 4
\* largest budget max_depth of a call of deobfuscate_internal
MaxBudget == 3
\* tokens of an input of BlockEngine
MaxTokens == 3
\* pieces an input of the beautifiers is put together from
MaxPieces == 3
\* literals of a chain of concatenations
MaxChain == 3
\* pieces the content of a string literal is put together from
MaxEscapes == 2
\* arguments of a call of string.char
MaxCodes == 2
\* fragments a token stream of analyze_scope is put together from
MaxScopeFragments == 3
\* characters of a numeric literal
MaxDigits == 4
\* blocks inside one another in the nested programs given to BlockEngine
MaxBlockNest == 2
\* characters of a text given to the shared lexer, and tokens a run of it is
\* followed for
MaxLexLen == 3
MaxLexTokens == 5

\* --------------------------------------------------------- characters, text

\* Python's None, returned by peek() at end of input
None == "None"

DigitChars == {"0", "1", "2", "3", "4", "5", "6", "7", "8", "9"}
LowerChars == {"a", "b", "c", "d", "e", "f", "g", "h", "i", "j", "k", "l", "m",
               "n", "o", "p", "q", "r", "s", "t", "u", "v", "w", "x", "y", "z"}
UpperChars == {"A", "B", "C", "D", "E", "F", "G", "H", "I", "J", "K", "L", "M",
               "N", "O", "P", "Q", "R", "S", "T", "U", "V", "W", "X", "Y", "Z"}
\* the characters outside ASCII that str.isdigit() and str.isalnum() accept and
\* the classes [0-9] and [0-9A-Fa-fxX.] do not; the model has one of them,
\* SUPERSCRIPT TWO (U+00B2), written by its code point
OtherDigits == {"#178"}
\* str.isdigit(), str.isalpha(), str.isalnum() on the characters of the model
IsDigit(c) == c \in DigitChars \cup OtherDigits
IsAlpha(c) == c \in LowerChars \cup UpperChars
IsAlnum(c) == IsDigit(c) \/ IsAlpha(c)
\* the character class [a-zA-Z0-9_] and the identifier characters
WordChars == DigitChars \cup LowerChars \cup UpperChars \cup {"_"}
\* the characters c with c.isalnum() or c == '_'
AlnumChars == WordChars \cup OtherDigits
\* '0123456789abcdefABCDEF_.'
HexNumChars == DigitChars \cup {"a", "b", "c", "d", "e", "f",
                                "A", "B", "C", "D", "E", "F", "_", "."}

\* the element of a set of one element: Only({F(x) : x \in {e}}) is F(e) with
\* the value of e taken once, before F uses it
Only(S) == CHOOSE x \in S : TRUE

Min(a, b) == IF a < b THEN a ELSE b
Max(a, b) == IF a > b THEN a ELSE b

\* code[from:to]
Slice(code, from, to) == SubSeq(code, from + 1, to)
\* c * n
Repeat(c, n) == [i \in 1..n |-> c]
\* val.endswith(suffix)
EndsWith(val, suffix) ==
    /\ Len(val) >= Len(suffix)
    /\ SubSeq(val, Len(val) - Len(suffix) + 1, Len(val)) = suffix
\* code.startswith(prefix, pos)
StartsAt(code, pos, prefix) ==
    /\ pos + Len(prefix) <= Len(code)
    /\ SubSeq(code, pos + 1, pos + Len(prefix)) = prefix

\* the state that Step(k, s) leads to from s0 for k = lo, lo + 1, ..., hi in
\* turn; the range is halved so that the evaluation nests log(hi - lo) deep,
\* and the state after the first half is a value before the second half starts
Fold(Step(_, _), lo, hi, s0) ==
    LET RECURSIVE run(_, _, _)
        run(a, b, s) ==
            IF a > b THEN s
            ELSE IF a = b THEN Step(a, s)
            ELSE CHOOSE r \in {run(((a + b) \div 2) + 1, b, left) :
                                  left \in {run(a, (a + b) \div 2, s)}} : TRUE
    IN  run(lo, hi, s0)

\* ''.join(seqs)
Flatten(seqs) ==
    LET Step(k, s) == s \o seqs[k]
    IN  Fold(Step, 1, Len(seqs), <<>>)

\* ''.join(t.value for t in tokens)
JoinValues(toks) == Flatten([i \in 1..Len(toks) |-> toks[i].value])

\* peek(offset) of minify.py, beautify.py and deobfuscate.py: None at end of input
Peek(code, pos, off) ==
    IF pos + off < Len(code) THEN code[pos + off + 1] ELSE None

\* `while self.peek() and self.peek() in S: val += self.advance()`: the position
\* after the longest run of characters of S that starts at pos
ScanWhile(code, pos, S) ==
    IF pos >= Len(code) THEN pos
    ELSE CHOOSE q \in pos..Len(code) :
             /\ q = Len(code) \/ code[q + 1] \notin S
             /\ \A k \in pos..(q - 1) : code[k + 1] \in S

\* `while self.peek() and self.peek() not in S: val += self.advance()`: the
\* position of the first character of S at or after pos, or the end of input
ScanUntil(code, pos, S) ==
    IF pos >= Len(code) THEN pos
    ELSE CHOOSE q \in pos..Len(code) :
             /\ q = Len(code) \/ code[q + 1] \in S
             /\ \A k \in pos..(q - 1) : code[k + 1] \notin S

\* the result of reading one token: raised (an exception left tokenize), the
\* tokens appended (none or one) and the position reached
Raised(pos) == [raised |-> TRUE, toks |-> <<>>, pos |-> pos]
Read(type, value, pos) ==
    [raised |-> FALSE, toks |-> <<[type |-> type, value |-> value]>>, pos |-> pos]
Skip(pos) == [raised |-> FALSE, toks |-> <<>>, pos |-> pos]

\* ']' + '=' * level + ']'   and   '[' + '=' * level + '['
Suffix(level) == <<"]">> \o Repeat("=", level) \o <<"]">>
Prefix(level) == <<"[">> \o Repeat("=", level) \o <<"[">>

\* KEYWORDS of minify.py, beautify.py and deobfuscate.py (the same set)
KEYWORDS ==
    { <<"a","n","d">>, <<"b","r","e","a","k">>, <<"d","o">>, <<"e","l","s","e">>,
      <<"e","l","s","e","i","f">>, <<"e","n","d">>, <<"f","a","l","s","e">>,
      <<"f","o","r">>, <<"f","u","n","c","t","i","o","n">>, <<"i","f">>,
      <<"i","n">>, <<"l","o","c","a","l">>, <<"n","i","l">>, <<"n","o","t">>,
      <<"o","r">>, <<"r","e","p","e","a","t">>, <<"r","e","t","u","r","n">>,
      <<"t","h","e","n">>, <<"t","r","u","e">>, <<"u","n","t","i","l">>,
      <<"w","h","i","l","e">>, <<"c","o","n","t","i","n","u","e">> }

\* -------------------------------------- readers shared by the three tokenizers
\* _read_number, _read_identifier and _read_string are the same code, line for
\* line, in minify.py, beautify.py and deobfuscate.py.

\* _read_number: `self.peek(1) in 'xX'`, `self.peek() in 'eE'` and
\* `self.peek() in '+-'` raise TypeError when peek() is None
ReadNumber(code, pos) ==
    IF Peek(code, pos, 0) = "0" /\ Peek(code, pos, 1) = None THEN Raised(pos)
    ELSE IF Peek(code, pos, 0) = "0" /\ Peek(code, pos, 1) \in {"x", "X"}
    THEN LET q == ScanWhile(code, pos + 2, HexNumChars)
         IN  Read("NUMBER", Slice(code, pos, q), q)
    ELSE LET q == ScanWhile(code, pos, DigitChars \cup OtherDigits \cup {".", "_"})
         IN  IF Peek(code, q, 0) = None THEN Raised(q)
             ELSE IF Peek(code, q, 0) \in {"e", "E"}
             THEN IF Peek(code, q, 1) = None THEN Raised(q + 1)
                  ELSE LET s == IF Peek(code, q, 1) \in {"+", "-"}
                                THEN q + 2 ELSE q + 1
                           r == ScanWhile(code, s, DigitChars \cup OtherDigits)
                       IN  Read("NUMBER", Slice(code, pos, r), r)
             ELSE Read("NUMBER", Slice(code, pos, q), q)

\* _read_identifier
ReadIdentifier(code, pos) ==
    LET q == ScanWhile(code, pos, AlnumChars)
        val == Slice(code, pos, q)
    IN  Read(IF val \in KEYWORDS THEN "KEYWORD" ELSE "IDENTIFIER", val, q)

\* the loop of _read_string, entered after the opening quote: the position after
\* the closing quote, or the end of input
ScanString(code, pos, quote) ==
    LET \* one iteration at offset k, when the loop has not ended before it
        Step(k, s) ==
            IF s.closed \/ k # s.pos THEN s
            ELSE IF code[k + 1] = quote THEN [pos |-> k + 1, closed |-> TRUE]
            ELSE IF code[k + 1] = "\\"
            THEN [pos |-> Min(k + 2, Len(code)), closed |-> FALSE]
            ELSE [pos |-> k + 1, closed |-> FALSE]
    IN  Fold(Step, pos, Len(code) - 1, [pos |-> pos, closed |-> FALSE]).pos

\* _read_string
ReadString(code, pos) ==
    LET q == ScanString(code, pos + 1, code[pos + 1])
    IN  Read("STRING", Slice(code, pos, q), q)

\* the two-character operators of _read_operator
TwoCharOps ==
    { <<"=","=">>, <<"~","=">>, <<"<","=">>, <<">","=">>, <<".",".">>,
      <<"+","=">>, <<"-","=">>, <<"*","=">>, <<"/","=">>, <<"^","=">> }

\* ''.join(self.peek(i) or '' for i in range(n))
PeekJoin(code, pos, n) == Slice(code, pos, Min(pos + n, Len(code)))

\* ------------------------------------------------------ minify.py tokenizer

RECURSIVE ReadUntilSuffix(_, _, _, _)
\* minify.py: `val += self.advance(); if val.endswith(suffix): break`
ReadUntilSuffix(code, pos, val, suffix) ==
    IF pos >= Len(code) THEN [val |-> val, pos |-> pos]
    ELSE LET v == Append(val, code[pos + 1])
         IN  IF EndsWith(v, suffix) THEN [val |-> v, pos |-> pos + 1]
             ELSE ReadUntilSuffix(code, pos + 1, v, suffix)

\* minify.py LuaTokenizer._read_comment: the characters of the opener `[`, `=`..,
\* `[` are consumed by advance() without being added to val
MinifyReadComment(code, pos) ==
    LET p2 == pos + 2
        dashes == <<"-", "-">>
    IN  IF Peek(code, p2, 0) = "["
        THEN LET q == ScanWhile(code, p2 + 1, {"="})
                 level == q - (p2 + 1)
             IN  IF Peek(code, q, 0) = "["
                 THEN LET r == ReadUntilSuffix(code, q + 1, dashes, Suffix(level))
                      IN  Read("COMMENT", r.val, r.pos)
                 ELSE LET e == ScanUntil(code, q, {"\r", "\n"})
                      IN  Read("COMMENT", dashes \o Slice(code, q, e), e)
        ELSE LET e == ScanUntil(code, p2, {"\r", "\n"})
             IN  Read("COMMENT", dashes \o Slice(code, p2, e), e)

\* minify.py LuaTokenizer._read_long_string
MinifyReadLongString(code, pos, level) ==
    LET r == ReadUntilSuffix(code, pos + level + 2, Prefix(level), Suffix(level))
    IN  Read("STRING", r.val, r.pos)

\* minify.py LuaTokenizer._read_operator
MinifyReadOperator(code, pos) ==
    IF PeekJoin(code, pos, 3) = <<".", ".", ".">>
    THEN Read("OPERATOR", <<".", ".", ".">>, pos + 3)
    ELSE IF PeekJoin(code, pos, 2) \in TwoCharOps \cup {<<"/", "/">>}
    THEN Read("OPERATOR", PeekJoin(code, pos, 2), pos + 2)
    ELSE Read("OPERATOR", <<code[pos + 1]>>, pos + 1)

\* one iteration of the loop of minify.py LuaTokenizer.tokenize, at pos < length
MinifyReadToken(code, pos) ==
    LET c == Peek(code, pos, 0)
    IN  IF c \in {" ", "\t", "\r", "\n"}
        THEN \* `while self.peek() in ' \t\r\n'` raises when the run reaches the end
             LET q == ScanWhile(code, pos, {" ", "\t", "\r", "\n"})
             IN  IF q >= Len(code) THEN Raised(q)
                 ELSE Read("WHITESPACE", Slice(code, pos, q), q)
        ELSE IF c = "-" /\ Peek(code, pos, 1) = "-" THEN MinifyReadComment(code, pos)
        ELSE IF c \in {"\"", "'"} THEN ReadString(code, pos)
        ELSE IF c = "["
        THEN IF Peek(code, pos, 1) = None THEN Raised(pos)
             ELSE IF Peek(code, pos, 1) \in {"=", "["}
                     /\ Peek(code, ScanWhile(code, pos + 1, {"="}), 0) = "["
             THEN MinifyReadLongString(code, pos,
                                       ScanWhile(code, pos + 1, {"="}) - (pos + 1))
             ELSE Read("OPERATOR", <<"[">>, pos + 1)
        ELSE IF IsDigit(c) \/ (c = "." /\ Peek(code, pos, 1) # None
                                       /\ IsDigit(Peek(code, pos, 1)))
        THEN ReadNumber(code, pos)
        ELSE IF IsAlpha(c) \/ c = "_" THEN ReadIdentifier(code, pos)
        ELSE MinifyReadOperator(code, pos)

\* ----------------------------------------------------- beautify.py tokenizer

RECURSIVE ReadLongBracketContent(_, _, _, _)
\* beautify.py LuaTokenizer._read_long_bracket_content, and the same loop in
\* deobfuscate.py LuaTokenizer._read_long_string: at a `]` the suffix is
\* compared with peek(0), peek(1), ...; on a match it is consumed and ends the token
ReadLongBracketContent(code, pos, val, suffix) ==
    IF pos >= Len(code) THEN [val |-> val, pos |-> pos]
    ELSE IF code[pos + 1] = "]" /\ StartsAt(code, pos, suffix)
    THEN [val |-> val \o suffix, pos |-> pos + Len(suffix)]
    ELSE ReadLongBracketContent(code, pos + 1, Append(val, code[pos + 1]), suffix)

\* beautify.py LuaTokenizer._read_comment: when `--[` and a run of `=` are not
\* followed by a second `[`, the consumed `[` and `=` are not part of the value
BeautifyReadComment(code, pos) ==
    LET p2 == pos + 2
        dashes == <<"-", "-">>
    IN  IF Peek(code, p2, 0) = "["
        THEN LET q == ScanWhile(code, p2 + 1, {"="})
                 level == q - (p2 + 1)
             IN  IF Peek(code, q, 0) = "["
                 THEN LET r == ReadLongBracketContent(code, q + 1,
                                   dashes \o Prefix(level), Suffix(level))
                      IN  Read("COMMENT", r.val, r.pos)
                 ELSE LET e == ScanUntil(code, q, {"\n"})
                      IN  Read("COMMENT", dashes \o Slice(code, q, e), e)
        ELSE LET e == ScanUntil(code, p2, {"\n"})
             IN  Read("COMMENT", dashes \o Slice(code, p2, e), e)

\* beautify.py LuaTokenizer._read_long_string
BeautifyReadLongString(code, pos, level) ==
    LET r == ReadLongBracketContent(code, pos + level + 2,
                                    Prefix(level), Suffix(level))
    IN  Read("STRING", r.val, r.pos)

\* beautify.py LuaTokenizer._read_operator: `three[:2] in ('../=', )` is never
\* true, so `...` is the only three-character operator
BeautifyReadOperator(code, pos) ==
    IF PeekJoin(code, pos, 3) = <<".", ".", ".">>
    THEN Read("OPERATOR", <<".", ".", ".">>, pos + 3)
    ELSE IF PeekJoin(code, pos, 2) \in TwoCharOps
    THEN Read("OPERATOR", PeekJoin(code, pos, 2), pos + 2)
    ELSE Read("OPERATOR", <<code[pos + 1]>>, pos + 1)

\* one iteration of the loop of beautify.py LuaTokenizer.tokenize, at pos < length
BeautifyReadToken(code, pos) ==
    LET c == Peek(code, pos, 0)
    IN  IF c \in {" ", "\t", "\r"} THEN Skip(pos + 1)
        ELSE IF c = "\n" THEN Read("NEWLINE", <<"\n">>, pos + 1)
        ELSE IF c = "-" /\ Peek(code, pos, 1) = "-"
        THEN BeautifyReadComment(code, pos)
        ELSE IF c \in {"\"", "'"} THEN ReadString(code, pos)
        ELSE IF c = "["
        THEN IF Peek(code, pos, 1) = None THEN Raised(pos)
             ELSE IF Peek(code, pos, 1) \in {"=", "["}
                     /\ Peek(code, ScanWhile(code, pos + 1, {"="}), 0) = "["
             THEN BeautifyReadLongString(code, pos,
                                         ScanWhile(code, pos + 1, {"="}) - (pos + 1))
             ELSE BeautifyReadOperator(code, pos)
        ELSE IF IsDigit(c) \/ (c = "." /\ Peek(code, pos, 1) # None
                                       /\ IsDigit(Peek(code, pos, 1)))
        THEN ReadNumber(code, pos)
        ELSE IF IsAlpha(c) \/ c = "_" THEN ReadIdentifier(code, pos)
        ELSE BeautifyReadOperator(code, pos)

\* -------------------------------------------------- deobfuscate.py tokenizer

\* deobfuscate.py LuaTokenizer._read_comment: every comment runs to the end of
\* the line
DeobReadComment(code, pos) ==
    LET e == ScanUntil(code, pos + 2, {"\n"})
    IN  Read("COMMENT", Slice(code, pos, e), e)

\* deobfuscate.py LuaTokenizer._read_long_string: entered at `[` followed by `=`
\* or `[`; the second `[` is taken when present and not required
DeobReadLongString(code, pos) ==
    LET q == ScanWhile(code, pos + 1, {"="})
        level == q - (pos + 1)
        b == IF Peek(code, q, 0) = "[" THEN q + 1 ELSE q
        r == ReadLongBracketContent(code, b, Slice(code, pos, b), Suffix(level))
    IN  Read("STRING", r.val, r.pos)

\* deobfuscate.py LuaTokenizer._read_operator: `two` holds at most two
\* characters, so the branch `two[:3] == '...'` is never taken
DeobReadOperator(code, pos) ==
    IF PeekJoin(code, pos, 2) \in TwoCharOps
    THEN Read("OPERATOR", PeekJoin(code, pos, 2), pos + 2)
    ELSE IF Slice(PeekJoin(code, pos, 2), 0, Min(3, Len(PeekJoin(code, pos, 2))))
            = <<".", ".", ".">>
    THEN Read("OPERATOR", <<".", ".", ".">>, Min(pos + 3, Len(code)))
    ELSE Read("OPERATOR", <<code[pos + 1]>>, pos + 1)

\* one iteration of the loop of deobfuscate.py LuaTokenizer.tokenize
DeobReadToken(code, pos) ==
    LET c == Peek(code, pos, 0)
    IN  IF c \in {" ", "\t", "\r"}
        THEN \* `while self.peek() in ' \t\r'` raises when the run reaches the end
             LET q == ScanWhile(code, pos, {" ", "\t", "\r"})
             IN  IF q >= Len(code) THEN Raised(q)
                 ELSE Read("WHITESPACE", Slice(code, pos, q), q)
        ELSE IF c = "\n" THEN Read("NEWLINE", <<"\n">>, pos + 1)
        ELSE IF c = "-" /\ Peek(code, pos, 1) = "-" THEN DeobReadComment(code, pos)
        ELSE IF c \in {"\"", "'"} THEN ReadString(code, pos)
        ELSE IF c = "[" /\ Peek(code, pos, 1) = None THEN Raised(pos)
        ELSE IF c = "[" /\ Peek(code, pos, 1) \in {"=", "["}
        THEN DeobReadLongString(code, pos)
        ELSE IF IsDigit(c) \/ (c = "." /\ Peek(code, pos, 1) # None
                                       /\ IsDigit(Peek(code, pos, 1)))
        THEN ReadNumber(code, pos)
        ELSE IF IsAlpha(c) \/ c = "_" THEN ReadIdentifier(code, pos)
        ELSE DeobReadOperator(code, pos)

\* ------------------------------------------------- lua_tokenizer.py tokenizer

\* lua_tokenizer.py KEYWORDS: the common set and the Luau extras
SharedKEYWORDS ==
    (KEYWORDS \ {<<"c","o","n","t","i","n","u","e">>}) \cup
    { <<"c","o","n","t","i","n","u","e">>, <<"t","y","p","e","o","f">>,
      <<"e","x","p","o","r","t">>, <<"i","m","p","o","r","t">> }

\* lua_tokenizer.py OPERATORS
SharedOPERATORS ==
    { <<"+">>, <<"-">>, <<"*">>, <<"/">>, <<"%">>, <<"^">>, <<"#">>, <<"=","=">>,
      <<"~","=">>, <<"<","=">>, <<">","=">>, <<"<">>, <<">">>, <<"=">>,
      <<"(">>, <<")">>, <<"{">>, <<"}">>, <<"[">>, <<"]">>, <<";">>, <<":">>,
      <<",">>, <<".">>, <<".",".">>, <<".",".",".">>, <<".",".","=">>,
      <<"+","=">>, <<"-","=">>, <<"*","=">>, <<"/","=">> }

\* the operators that are substrings of "(){}[];:,. " and so typed PUNCT
SharedPunct == {"(", ")", "{", "}", "[", "]", ";", ":", ",", "."}

\* str.isspace() on the characters of the model
SpaceChars == {" ", "\t", "\r", "\n"}

\* lua_tokenizer.py LuaTokenizer.peek(n): '' when fewer than n characters remain
SharedPeek(text, i, n) ==
    IF i + n > Len(text) THEN <<>> ELSE Slice(text, i, i + n)

RECURSIVE SharedScanUntil(_, _, _)
\* `while self.i < len(self.text) and self.peek(2) != s: self.advance()`
SharedScanUntil(text, i, s) ==
    IF i < Len(text) /\ SharedPeek(text, i, Len(s)) # s
    THEN SharedScanUntil(text, i + 1, s) ELSE i

RECURSIVE SharedScanString(_, _, _)
\* the loop of the branch "Normal strings"; advance(2) stops at the end of input
SharedScanString(text, i, quote) ==
    IF i >= Len(text) THEN i
    ELSE IF text[i + 1] = "\\"
    THEN SharedScanString(text, Min(i + 2, Len(text)), quote)
    ELSE IF text[i + 1] = quote THEN i + 1
    ELSE SharedScanString(text, i + 1, quote)

\* the longest operator of OPERATORS that peek(len(op)) equals, <<>> when none
\* (sorted(OPERATORS, key=len, reverse=True): no two operators of one length
\* match at the same place)
SharedMatchOperator(text, i) ==
    IF SharedPeek(text, i, 3) \in SharedOPERATORS THEN SharedPeek(text, i, 3)
    ELSE IF SharedPeek(text, i, 2) \in SharedOPERATORS THEN SharedPeek(text, i, 2)
    ELSE IF SharedPeek(text, i, 1) \in SharedOPERATORS THEN SharedPeek(text, i, 1)
    ELSE <<>>

\* the regular expression [0-9A-Fa-fxX\.] of the branch "Numbers"
SharedNumChars == (HexNumChars \ {"_"}) \cup {"x", "X"}

\* one iteration of the loop of lua_tokenizer.py LuaTokenizer.tokenize
SharedReadToken(text, i) ==
    LET ch == text[i + 1]
        n == Len(text)
    IN  IF ch \in SpaceChars
        THEN LET q == ScanWhile(text, i, SpaceChars)
             IN  Read("WHITESPACE", Slice(text, i, q), q)
        ELSE IF SharedPeek(text, i, 2) = <<"-", "-">>
        THEN IF SharedPeek(text, i, 4) = <<"-", "-", "[", "[">>
             THEN LET q == Min(SharedScanUntil(text, i + 4, <<"]", "]">>) + 2, n)
                  IN  Read("COMMENT", Slice(text, i, q), q)
             ELSE LET q == ScanUntil(text, i, {"\n"})
                  IN  Read("COMMENT", Slice(text, i, q), q)
        ELSE IF SharedPeek(text, i, 2) = <<"[", "[">>
        THEN LET q == Min(SharedScanUntil(text, i + 2, <<"]", "]">>) + 2, n)
             IN  Read("STRING", Slice(text, i, q), q)
        ELSE IF ch \in {"\"", "'"}
        THEN LET q == SharedScanString(text, i + 1, ch)
             IN  Read("STRING", Slice(text, i, q), q)
        ELSE IF IsDigit(ch)
        THEN LET q == ScanWhile(text, i, SharedNumChars)
             IN  Read("NUMBER", Slice(text, i, q), q)
        ELSE IF IsAlpha(ch) \/ ch = "_"
        THEN LET q == ScanWhile(text, i, AlnumChars)
                 value == Slice(text, i, q)
             IN  Read(IF value \in SharedKEYWORDS THEN "KEYWORD" ELSE "IDENTIFIER",
                      value, q)
        ELSE IF SharedMatchOperator(text, i) # <<>>
        THEN LET op == SharedMatchOperator(text, i)
             IN  Read(IF Len(op) = 1 /\ op[1] \in SharedPunct
                      THEN "PUNCT" ELSE "OPERATOR", op, i + Len(op))
        ELSE Read("UNKNOWN", <<ch>>, i + 1)

\* ------------------------------------------------------------ whole tokenize

\* the four tokenizers
Impls == {"shared", "minify", "beautify", "deobfuscate"}

\* one iteration of the main loop of tokenize of the given file
ReadToken(which, code, pos) ==
    CASE which = "shared" -> SharedReadToken(code, pos)
      [] which = "minify" -> MinifyReadToken(code, pos)
      [] which = "beautify" -> BeautifyReadToken(code, pos)
      [] which = "deobfuscate" -> DeobReadToken(code, pos)

\* the loop `while self.pos < self.length` of tokenize, run to its end from
\* the position pos with the tokens acc: [raised, tokens]
TokenizeFrom(which, code, pos, acc) ==
    LET \* one iteration at offset k, when the loop has reached it
        Step(k, s) ==
            IF s.raised \/ k # s.pos THEN s
            ELSE LET r == ReadToken(which, code, k)
                 IN  [pos |-> r.pos, raised |-> r.raised,
                      tokens |-> IF r.raised THEN s.tokens ELSE s.tokens \o r.toks]
        end == Fold(Step, pos, Len(code) - 1,
                    [pos |-> pos, raised |-> FALSE, tokens |-> acc])
    IN  [raised |-> end.raised, tokens |-> end.tokens]

\* LuaTokenizer(code).tokenize()
Tokenize(which, code) ==
    CHOOSE r \in {TokenizeFrom(which, text, 0, <<>>) : text \in {code}} : TRUE

\* ------------------------------------------------------- minify.py: renamer

\* VariableRenamer.ROBLOX_GLOBALS
ROBLOX_GLOBALS ==
    { <<"g","a","m","e">>, <<"w","o","r","k","s","p","a","c","e">>,
      <<"s","c","r","i","p","t">>, <<"I","n","s","t","a","n","c","e">>,
      <<"V","e","c","t","o","r","3">>, <<"C","F","r","a","m","e">>,
      <<"U","D","i","m","2">>, <<"C","o","l","o","r","3">>,
      <<"B","r","i","c","k","C","o","l","o","r">>, <<"E","n","u","m">>,
      <<"w","a","i","t">>, <<"w","a","r","n">>, <<"p","r","i","n","t">>,
      <<"t","i","c","k">>, <<"t","i","m","e">>,
      <<"e","l","a","p","s","e","d","T","i","m","e">>, <<"s","p","a","w","n">>,
      <<"d","e","l","a","y">>, <<"t","y","p","e","o","f">>,
      <<"R","a","n","d","o","m">>,
      <<"N","u","m","b","e","r","S","e","q","u","e","n","c","e">>,
      <<"C","o","l","o","r","S","e","q","u","e","n","c","e">>,
      <<"N","u","m","b","e","r","R","a","n","g","e">>,
      <<"R","e","g","i","o","n","3">>, <<"F","a","c","e","s">>,
      <<"A","x","e","s">>,
      <<"P","h","y","s","i","c","a","l","P","r","o","p","e","r","t","i","e","s">>,
      <<"R","a","y">>, <<"R","e","c","t">>,
      <<"T","w","e","e","n","I","n","f","o">>,
      <<"P","a","t","h","W","a","y","p","o","i","n","t">>,
      <<"R","u","n","S","e","r","v","i","c","e">>, <<"P","l","a","y","e","r","s">>,
      <<"R","e","p","l","i","c","a","t","e","d","S","t","o","r","a","g","e">>,
      <<"S","e","r","v","e","r","S","t","o","r","a","g","e">>,
      <<"S","t","a","r","t","e","r","G","u","i">>,
      <<"S","t","a","r","t","e","r","P","l","a","y","e","r">>,
      <<"L","i","g","h","t","i","n","g">>,
      <<"S","o","u","n","d","S","e","r","v","i","c","e">>,
      <<"U","s","e","r","I","n","p","u","t","S","e","r","v","i","c","e">>,
      <<"C","o","n","t","e","x","t","A","c","t","i","o","n","S","e","r","v","i","c","e">>,
      <<"T","w","e","e","n","S","e","r","v","i","c","e">>,
      <<"H","t","t","p","S","e","r","v","i","c","e">>,
      <<"M","a","r","k","e","t","p","l","a","c","e","S","e","r","v","i","c","e">>,
      <<"D","a","t","a","S","t","o","r","e","S","e","r","v","i","c","e">>,
      <<"M","e","s","s","a","g","i","n","g","S","e","r","v","i","c","e">>,
      <<"T","e","l","e","p","o","r","t","S","e","r","v","i","c","e">>,
      <<"B","a","d","g","e","S","e","r","v","i","c","e">>,
      <<"p","a","i","r","s">>, <<"i","p","a","i","r","s">>, <<"n","e","x","t">>,
      <<"s","e","l","e","c","t">>, <<"u","n","p","a","c","k">>,
      <<"t","a","b","l","e">>, <<"s","t","r","i","n","g">>, <<"m","a","t","h">>,
      <<"c","o","r","o","u","t","i","n","e">>, <<"d","e","b","u","g">>,
      <<"o","s">>, <<"i","o">>, <<"t","o","n","u","m","b","e","r">>,
      <<"t","o","s","t","r","i","n","g">>, <<"t","y","p","e">>,
      <<"a","s","s","e","r","t">>, <<"e","r","r","o","r">>, <<"p","c","a","l","l">>,
      <<"x","p","c","a","l","l">>,
      <<"g","e","t","m","e","t","a","t","a","b","l","e">>,
      <<"s","e","t","m","e","t","a","t","a","b","l","e">>,
      <<"r","a","w","g","e","t">>, <<"r","a","w","s","e","t">>,
      <<"r","a","w","e","q","u","a","l">>,
      <<"c","o","l","l","e","c","t","g","a","r","b","a","g","e">>,
      <<"n","e","w","p","r","o","x","y">>, <<"g","c","i","n","f","o">>,
      <<"g","e","t","f","e","n","v">>, <<"s","e","t","f","e","n","v">>,
      <<"l","o","a","d","s","t","r","i","n","g">>, <<"r","e","q","u","i","r","e">>,
      <<"_","G">>, <<"_","V","E","R","S","I","O","N">>,
      <<"s","h","a","r","e","d">> }

\* valid_singles = 'abcdefghijklmnopqrstuvwxyzABCDEFGHIJKLMNOPQRSTUVWXYZ'
valid_singles ==
    << "a", "b", "c", "d", "e", "f", "g", "h", "i", "j", "k", "l", "m",
       "n", "o", "p", "q", "r", "s", "t", "u", "v", "w", "x", "y", "z",
       "A", "B", "C", "D", "E", "F", "G", "H", "I", "J", "K", "L", "M",
       "N", "O", "P", "Q", "R", "S", "T", "U", "V", "W", "X", "Y", "Z" >>

\* valid_singles + '0123456789_'
valid_followers ==
    valid_singles \o <<"0", "1", "2", "3", "4", "5", "6", "7", "8", "9", "_">>

NotKeyword(name) == name \notin KEYWORDS

\* the three loops of generate_short_names
OneCharNames == [k \in 1..Len(valid_singles) |-> <<valid_singles[k]>>]
TwoCharNames ==
    LET n == Len(valid_followers)
    IN  SelectSeq([k \in 1..(Len(valid_singles) * n) |->
                      << valid_singles[((k - 1) \div n) + 1],
                         valid_followers[((k - 1) % n) + 1] >>],
                  NotKeyword)
ThreeCharNames ==
    LET n == Len(valid_followers)
    IN  SelectSeq([k \in 1..(Len(valid_singles) * n * n) |->
                      << valid_singles[((k - 1) \div (n * n)) + 1],
                         valid_followers[(((k - 1) \div n) % n) + 1],
                         valid_followers[((k - 1) % n) + 1] >>],
                  NotKeyword)

\* VariableRenamer.generate_short_names()
generate_short_names == OneCharNames \o TwoCharNames \o ThreeCharNames


\* the characters of identifiers in code-point order, for sorted()
CodePointOrder ==
    << "0", "1", "2", "3", "4", "5", "6", "7", "8", "9",
       "A", "B", "C", "D", "E", "F", "G", "H", "I", "J", "K", "L", "M",
       "N", "O", "P", "Q", "R", "S", "T", "U", "V", "W", "X", "Y", "Z", "_",
       "a", "b", "c", "d", "e", "f", "g", "h", "i", "j", "k", "l", "m",
       "n", "o", "p", "q", "r", "s", "t", "u", "v", "w", "x", "y", "z" >>
CodePoint(c) == CHOOSE k \in 1..Len(CodePointOrder) : CodePointOrder[k] = c

\* a < b for two names, as Python compares str
StrLess(a, b) ==
    \E k \in 1..(Min(Len(a), Len(b)) + 1) :
        /\ \A j \in 1..(k - 1) : a[j] = b[j]
        /\ IF k > Len(a) THEN k <= Len(b)
           ELSE k <= Len(b) /\ CodePoint(a[k]) < CodePoint(b[k])

\* the index past the whitespace tokens at and after j
RECURSIVE SkipWhitespace(_, _)
SkipWhitespace(toks, j) ==
    IF j <= Len(toks) /\ toks[j].type = "WHITESPACE"
    THEN SkipWhitespace(toks, j + 1) ELSE j

IsKw(tok, words) == tok.type = "KEYWORD" /\ tok.value \in words

RECURSIVE DeclaredNames(_, _)
\* the inner loop of analyze_scope after `local`, from token index j (1-based):
\* the names of the comma-separated list that are not in ROBLOX_GLOBALS
DeclaredNames(toks, j) ==
    LET a == SkipWhitespace(toks, j)
    IN  IF a <= Len(toks) /\ toks[a].type = "IDENTIFIER"
        THEN LET b == SkipWhitespace(toks, a + 1)
                 here == IF toks[a].value \notin ROBLOX_GLOBALS
                         THEN {toks[a].value} ELSE {}
             IN  IF b <= Len(toks) /\ toks[b].value = <<",">>
                 THEN here \cup DeclaredNames(toks, b + 1)
                 ELSE here
        ELSE {}

\* scopes[-1].update(names) / scopes[-1].add(name)
AddToTop(scopes, names) ==
    [scopes EXCEPT ![Len(scopes)] = scopes[Len(scopes)] \cup names]

\* one iteration of the loop `while i < len(tokens)` of analyze_scope, on the
\* token of index i (1-based): the scope stack after it
AnalyzeToken(toks, i, scopes) ==
    LET tok == toks[i]
    IN  IF IsKw(tok, { <<"f","u","n","c","t","i","o","n">>, <<"d","o">>, <<"i","f">>,
                       <<"f","o","r">>, <<"w","h","i","l","e">>,
                       <<"r","e","p","e","a","t">> })
        THEN Append(scopes, {})
        ELSE IF IsKw(tok, { <<"e","n","d">>, <<"u","n","t","i","l">> })
        THEN IF Len(scopes) > 1
             THEN AddToTop(SubSeq(scopes, 1, Len(scopes) - 1), scopes[Len(scopes)])
             ELSE scopes
        ELSE IF IsKw(tok, { <<"l","o","c","a","l">> })
        THEN AddToTop(scopes, DeclaredNames(toks, i + 1))
        ELSE scopes

RECURSIVE AnalyzeRange(_, _, _, _)
\* the iterations of the loop of analyze_scope on the tokens lo..hi, in order:
\* the scope stack after them (the range is halved to keep the nesting of the
\* evaluation logarithmic; the stack is never empty, the comparison only makes
\* the evaluation finish the first half before the second starts)
AnalyzeRange(toks, lo, hi, scopes) ==
    IF lo > hi THEN scopes
    ELSE IF lo = hi THEN AnalyzeToken(toks, lo, scopes)
    ELSE LET mid == (lo + hi) \div 2
             left == AnalyzeRange(toks, lo, mid, scopes)
         IN  IF left = <<>> THEN left ELSE AnalyzeRange(toks, mid + 1, hi, left)

\* the scope on top of the stack only
LastScope(stack) == stack[Len(stack)]

\* `all_locals`: the union of the scopes left on the stack
AllLocals(scopes) == UNION {scopes[k] : k \in 1..Len(scopes)}

\* VariableRenamer.analyze_scope(tokens)
analyze_scope(toks) == AllLocals(AnalyzeRange(toks, 1, Len(toks), << {} >>))

RECURSIVE Decimal(_)
\* str(n) for n >= 0
Decimal(n) ==
    LET d == <<"0", "1", "2", "3", "4", "5", "6", "7", "8", "9">>[(n % 10) + 1]
    IN  IF n < 10 THEN <<d>> ELSE Append(Decimal(n \div 10), d)

\* the new name given at name_idx (0-based) in the loop of rename:
\* short_names[name_idx], or the fallback f"v{name_idx}"
NewName(name_idx) ==
    IF name_idx < Len(generate_short_names)
    THEN generate_short_names[name_idx + 1]
    ELSE <<"v">> \o Decimal(name_idx)

\* the position (0-based) of var in local_vars sorted in descending order
ReverseIndex(var, local_vars) == Cardinality({w \in local_vars : StrLess(var, w)})

\* the position (0-based) of var in sorted(local_vars)
SortedIndex(var, local_vars) == Cardinality({w \in local_vars : StrLess(w, var)})

\* `var_map` after the loop `for var in sorted(local_vars)`: name_idx grows by
\* one for every var, in both branches
VarMap(local_vars) ==
    [var \in local_vars |-> NewName(SortedIndex(var, local_vars))]

\* the loop "Apply renaming" of rename
ApplyRenaming(toks, var_map) ==
    [k \in 1..Len(toks) |->
        IF toks[k].type = "IDENTIFIER" /\ toks[k].value \in DOMAIN var_map
        THEN [type |-> "IDENTIFIER", value |-> var_map[toks[k].value]]
        ELSE toks[k]]

\* VariableRenamer.rename(tokens)
rename(toks) ==
    LET local_vars == analyze_scope(toks)
    IN  IF local_vars = {} THEN toks
        ELSE ApplyRenaming(toks, VarMap(local_vars))


\* ------------------------------------------------------ minify.py: minifier

\* LuaMinifier.needs_space(prev, curr)
needs_space(prev, curr) ==
    IF prev.type = "KEYWORD" /\ curr.type = "KEYWORD" THEN TRUE
    ELSE IF prev.type = "IDENTIFIER" /\ curr.type = "IDENTIFIER" THEN TRUE
    ELSE IF prev.type = "IDENTIFIER" /\ curr.type = "KEYWORD" THEN TRUE
    ELSE IF prev.type = "KEYWORD" /\ curr.type = "IDENTIFIER" THEN TRUE
    ELSE IF prev.type = "KEYWORD" /\ curr.type = "NUMBER" THEN TRUE
    ELSE IF prev.type = "IDENTIFIER" /\ curr.type = "NUMBER" THEN TRUE
    ELSE IF prev.type = "NUMBER" /\ curr.type = "IDENTIFIER" THEN TRUE
    ELSE IF prev.type = "NUMBER" /\ curr.type = "KEYWORD" THEN TRUE
    ELSE IF prev.type = "OPERATOR" \/ curr.type = "OPERATOR"
    THEN IF prev.value = <<".">> /\ curr.value = <<".">> THEN FALSE
         ELSE IF /\ (prev.value = <<".", ".">> \/ curr.value = <<".", ".">>)
                 /\ (\/ curr.type \in {"NUMBER", "IDENTIFIER"}
                     \/ prev.type \in {"NUMBER", "IDENTIFIER"})
         THEN TRUE
         ELSE IF prev.value = <<"-">> /\ curr.value = <<"-">> THEN TRUE
         ELSE FALSE
    ELSE FALSE

RECURSIVE RStrip(_, _)
\* val.rstrip(chars)
RStrip(val, chars) ==
    IF val # <<>> /\ val[Len(val)] \in chars
    THEN RStrip(SubSeq(val, 1, Len(val) - 1), chars) ELSE val

RECURSIVE LStrip(_, _)
\* val.lstrip(chars)
LStrip(val, chars) ==
    IF val # <<>> /\ val[1] \in chars THEN LStrip(Tail(val), chars) ELSE val

\* c in val
Contains(val, c) == \E k \in 1..Len(val) : val[k] = c

\* val.replace(c, '')
Remove(val, c) == SelectSeq(val, LAMBDA x : x # c)

\* the body of the loop of optimize_numbers for a NUMBER token of value val
OptimizeNumber(val) ==
    LET v1 == IF Contains(val, ".") /\ ~Contains(val, "e") /\ ~Contains(val, "E")
              THEN RStrip(RStrip(val, {"0"}), {"."}) ELSE val
        v2 == IF StartsAt(v1, 0, <<"0", ".">>) THEN Tail(v1) ELSE v1
    IN  Remove(v2, "_")

\* LuaMinifier.optimize_numbers(tokens)
optimize_numbers(toks) ==
    [k \in 1..Len(toks) |->
        IF toks[k].type = "NUMBER"
        THEN [type |-> "NUMBER", value |-> OptimizeNumber(toks[k].value)]
        ELSE toks[k]]

\* val[1:-1]
Inner(val) == SubSeq(val, 2, Len(val) - 1)

\* the body of the loop of optimize_strings for a STRING token of value val;
\* `len(inner) < len(val) - 2` is false for every val
OptimizeString(val) ==
    IF val[1] = "[" THEN val
    ELSE IF val[1] = "\"" /\ ~Contains(Inner(val), "'")
    THEN IF Len(Inner(val)) < Len(val) - 2 \/ Contains(Inner(val), "\\")
         THEN val ELSE <<"'">> \o Inner(val) \o <<"'">>
    ELSE IF val[1] = "'" /\ ~Contains(Inner(val), "\"")
    THEN IF Len(Inner(val)) < Len(val) - 2 \/ Contains(Inner(val), "\\")
         THEN val ELSE <<"\"">> \o Inner(val) \o <<"\"">>
    ELSE val

\* LuaMinifier.optimize_strings(tokens)
optimize_strings(toks) ==
    [k \in 1..Len(toks) |->
        IF toks[k].type = "STRING"
        THEN [type |-> "STRING", value |-> OptimizeString(toks[k].value)]
        ELSE toks[k]]

\* LuaMinifier.remove_unnecessary_semicolons(tokens): a `;` stays only when the
\* token right after it is a keyword
remove_unnecessary_semicolons(toks) ==
    LET Keep(k) == \/ ~(toks[k].type = "OPERATOR" /\ toks[k].value = <<";">>)
                   \/ (k + 1 <= Len(toks) /\ toks[k + 1].type = "KEYWORD")
        idx == SelectSeq([k \in 1..Len(toks) |-> k], Keep)
    IN  [j \in 1..Len(idx) |-> toks[idx[j]]]

\* [t for t in tokens if t.type != kind]
DropType(toks, kind) == SelectSeq(toks, LAMBDA t : t.type # kind)

RECURSIVE Serialize(_, _)
\* the loop "Remove whitespace and reconstruct" of minify over tokens without
\* WHITESPACE, from index k >= 2 (the token before it is prev_tok)
Serialize(toks, k) ==
    IF k > Len(toks) THEN <<>>
    ELSE (IF needs_space(toks[k - 1], toks[k]) THEN <<" ">> ELSE <<>>)
         \o toks[k].value \o Serialize(toks, k + 1)

\* ''.join(result) of minify
Reconstruct(toks) ==
    LET t == DropType(toks, "WHITESPACE")
    IN  IF t = <<>> THEN <<>> ELSE t[1].value \o Serialize(t, 2)

\* the class [+\-*/%^#=<>~,;:.(){}[\]] of the first clean-up expression
CleanupOpChars ==
    {"+", "-", "*", "/", "%", "^", "#", "=", "<", ">", "~", ",", ";", ":", ".",
     "(", ")", "{", "}", "[", "]"}

RECURSIVE StripAroundOps(_, _)
\* re.sub(r'\s*([+\-*/%^#=<>~,;:.(){}[\]])\s*', r'\1', text), from offset p: a
\* match starts at p when the blank run at p is followed by a character of the
\* class, and takes the blank run after it too
StripAroundOps(text, p) ==
    IF p >= Len(text) THEN <<>>
    ELSE LET q == ScanWhile(text, p, SpaceChars)
         IN  IF q < Len(text) /\ text[q + 1] \in CleanupOpChars
             THEN <<text[q + 1]>>
                  \o StripAroundOps(text, ScanWhile(text, q + 1, SpaceChars))
             ELSE <<text[p + 1]>> \o StripAroundOps(text, p + 1)

\* the alternatives of (and|or|not|in), in order
CleanupWords == << <<"a","n","d">>, <<"o","r">>, <<"n","o","t">>, <<"i","n">> >>

\* the first alternative of (and|or|not|in) that matches at offset p and, with
\* `after`, is followed by a character of [a-zA-Z0-9_]; <<>> when none does
WordAt(text, p, after) ==
    LET ok == {k \in 1..Len(CleanupWords) :
                  /\ StartsAt(text, p, CleanupWords[k])
                  /\ after => (/\ p + Len(CleanupWords[k]) < Len(text)
                               /\ text[p + Len(CleanupWords[k]) + 1] \in WordChars)}
    IN  IF ok = {} THEN <<>>
        ELSE CleanupWords[CHOOSE k \in ok : \A j \in ok : k <= j]

RECURSIVE SpaceBothSides(_, _)
\* re.sub(r'([a-zA-Z0-9_])(and|or|not|in)([a-zA-Z0-9_])', r'\1 \2 \3', text)
SpaceBothSides(text, p) ==
    IF p >= Len(text) THEN <<>>
    ELSE LET w == IF text[p + 1] \in WordChars THEN WordAt(text, p + 1, TRUE)
                  ELSE <<>>
         IN  IF w # <<>>
             THEN <<text[p + 1], " ">> \o w \o <<" ", text[p + Len(w) + 2]>>
                  \o SpaceBothSides(text, p + Len(w) + 2)
             ELSE <<text[p + 1]>> \o SpaceBothSides(text, p + 1)

RECURSIVE SpaceAfterWord(_, _)
\* re.sub(r'(and|or|not|in)([a-zA-Z0-9_])', r'\1 \2', text)
SpaceAfterWord(text, p) ==
    IF p >= Len(text) THEN <<>>
    ELSE LET w == WordAt(text, p, TRUE)
         IN  IF w # <<>>
             THEN w \o <<" ", text[p + Len(w) + 1]>>
                  \o SpaceAfterWord(text, p + Len(w) + 1)
             ELSE <<text[p + 1]>> \o SpaceAfterWord(text, p + 1)

RECURSIVE SpaceBeforeWord(_, _)
\* re.sub(r'([a-zA-Z0-9_])(and|or|not|in)', r'\1 \2', text)
SpaceBeforeWord(text, p) ==
    IF p >= Len(text) THEN <<>>
    ELSE LET w == IF text[p + 1] \in WordChars THEN WordAt(text, p + 1, FALSE)
                  ELSE <<>>
         IN  IF w # <<>>
             THEN <<text[p + 1], " ">> \o w \o SpaceBeforeWord(text, p + Len(w) + 1)
             ELSE <<text[p + 1]>> \o SpaceBeforeWord(text, p + 1)

RECURSIVE SpaceAfterDots(_, _)
\* re.sub(r'\.\.([a-zA-Z0-9_])', r'.. \1', text)
SpaceAfterDots(text, p) ==
    IF p >= Len(text) THEN <<>>
    ELSE IF /\ StartsAt(text, p, <<".", ".">>)
            /\ p + 2 < Len(text) /\ text[p + 3] \in WordChars
    THEN <<".", ".", " ", text[p + 3]>> \o SpaceAfterDots(text, p + 3)
    ELSE <<text[p + 1]>> \o SpaceAfterDots(text, p + 1)

RECURSIVE SpaceBeforeDots(_, _)
\* re.sub(r'([a-zA-Z0-9_])\.\.', r'\1 ..', text)
SpaceBeforeDots(text, p) ==
    IF p >= Len(text) THEN <<>>
    ELSE IF text[p + 1] \in WordChars /\ StartsAt(text, p + 1, <<".", ".">>)
    THEN <<text[p + 1], " ", ".", ".">> \o SpaceBeforeDots(text, p + 3)
    ELSE <<text[p + 1]>> \o SpaceBeforeDots(text, p + 1)

RECURSIVE SplitDashes(_, _)
\* re.sub(r'--', r'- -', text)
SplitDashes(text, p) ==
    IF p >= Len(text) THEN <<>>
    ELSE IF StartsAt(text, p, <<"-", "-">>)
    THEN <<"-", " ", "-">> \o SplitDashes(text, p + 2)
    ELSE <<text[p + 1]>> \o SplitDashes(text, p + 1)

\* the block "Final cleanup" of minify
FinalCleanup(text) ==
    LET t1 == StripAroundOps(text, 0)
        t2 == SpaceBothSides(t1, 0)
        t3 == SpaceAfterWord(t2, 0)
        t4 == SpaceBeforeWord(t3, 0)
        t5 == SpaceAfterDots(t4, 0)
        t6 == SpaceBeforeDots(t5, 0)
    IN  SplitDashes(t6, 0)

\* str.strip()
Strip(text) == LStrip(RStrip(text, SpaceChars), SpaceChars)

\* LuaMinifier.minify(code, rename_vars, aggressive): [raised, text]
minify(text, rename_vars, aggressive) ==
    LET tk == Tokenize("minify", text)
        t0 == DropType(tk.tokens, "COMMENT")
        t1 == IF aggressive
              THEN remove_unnecessary_semicolons(optimize_strings(optimize_numbers(t0)))
              ELSE t0
        t2 == IF rename_vars THEN rename(t1) ELSE t1
        minified == Reconstruct(t2)
    IN  IF tk.raised THEN [raised |-> TRUE, text |-> <<>>]
        ELSE [raised |-> FALSE,
              text |-> Strip(IF aggressive THEN FinalCleanup(minified) ELSE minified)]


\* ------------------------------------------- deobfuscate.py: string decoding

\* the printable ASCII characters, codes 32..126 (the grave accent, code 96,
\* is written as the characters outside this table are)
Ascii ==
    << " ", "!", "\"", "#", "$", "%", "&", "'", "(", ")", "*", "+", ",", "-", ".", "/",
       "0", "1", "2", "3", "4", "5", "6", "7", "8", "9", ":", ";", "<", "=", ">", "?",
       "@", "A", "B", "C", "D", "E", "F", "G", "H", "I", "J", "K", "L", "M", "N", "O",
       "P", "Q", "R", "S", "T", "U", "V", "W", "X", "Y", "Z", "[", "\\", "]", "^", "_",
       "#96", "a", "b", "c", "d", "e", "f", "g", "h", "i", "j", "k", "l", "m", "n", "o",
       "p", "q", "r", "s", "t", "u", "v", "w", "x", "y", "z", "{", "|", "}", "~" >>

\* the largest code point, 0x10FFFF
MaxCodePoint == 1114111

\* chr(n): a character outside tab, newline, carriage return and printable ASCII
\* is written "#n"
Chr(n) ==
    IF n \in 32..126 THEN Ascii[n - 31]
    ELSE IF n = 9 THEN "\t" ELSE IF n = 10 THEN "\n" ELSE IF n = 13 THEN "\r"
    ELSE "#" \o ToString(n)

\* ord(c) for the characters of codes 0..255
Ord(c) == CHOOSE n \in 0..255 : Chr(n) = c

\* the characters c with c.isspace(), which are the characters \\s of re
\* matches and str.strip() strips
PyWhitespace ==
    {Chr(n) : n \in (9..13) \cup (28..32) \cup {133, 160, 5760} \cup (8192..8202)
                        \cup {8232, 8233, 8239, 8287, 12288}}

\* str.strip()
PyStrip(text) == LStrip(RStrip(text, PyWhitespace), PyWhitespace)

HexDigits == <<"0", "1", "2", "3", "4", "5", "6", "7", "8", "9",
               "a", "b", "c", "d", "e", "f">>
UpperHex == <<"0", "1", "2", "3", "4", "5", "6", "7", "8", "9",
              "A", "B", "C", "D", "E", "F">>
IsHexDigit(c) == \E k \in 1..16 : c \in {HexDigits[k], UpperHex[k]}
HexVal(c) == (CHOOSE k \in 1..16 : c \in {HexDigits[k], UpperHex[k]}) - 1

RECURSIVE DigitsValue(_, _)
\* the value of a run of digits in the base; MaxCodePoint + 1 stands for every
\* value above MaxCodePoint
DigitsValue(ds, base) ==
    IF ds = <<>> THEN 0
    ELSE Min(MaxCodePoint + 1,
             DigitsValue(SubSeq(ds, 1, Len(ds) - 1), base) * base + HexVal(ds[Len(ds)]))

\* the digits of int(n, base) for a stripped n without sign and prefix: digits
\* of the base with single `_` between them; <<>> when int() raises ValueError
IntDigits(n, base) ==
    IF /\ n # <<>>
       /\ \A k \in 1..Len(n) :
              \/ IsHexDigit(n[k]) /\ HexVal(n[k]) < base
              \/ n[k] = "_" /\ k > 1 /\ k < Len(n) /\ n[k + 1] # "_"
    THEN Remove(n, "_") ELSE <<>>

\* chr(int(n, 16)) for n that starts with 0x or 0X, chr(int(n)) otherwise:
\* [ok, c]; ok is FALSE where the code raises ValueError or OverflowError
CharOfCode(n) ==
    LET hex    == StartsAt(n, 0, <<"0", "x">>) \/ StartsAt(n, 0, <<"0", "X">>)
        signed == ~hex /\ n # <<>> /\ n[1] \in {"+", "-"}
        body   == IF hex THEN SubSeq(n, 3, Len(n))
                  ELSE IF signed THEN Tail(n) ELSE n
        \* int(n, 16) takes a `_` right after the prefix
        ds     == IntDigits(IF hex /\ body # <<>> /\ body[1] = "_" THEN Tail(body)
                            ELSE body, IF hex THEN 16 ELSE 10)
        v      == DigitsValue(ds, IF hex THEN 16 ELSE 10)
    IN  IF ds = <<>> \/ v > MaxCodePoint \/ (signed /\ n[1] = "-" /\ v > 0)
        THEN [ok |-> FALSE, c |-> ""]
        ELSE [ok |-> TRUE, c |-> Chr(v)]

RECURSIVE Split(_, _)
\* text.split(sep) for a one-character sep
Split(text, sep) ==
    LET k == ScanUntil(text, 0, {sep})
    IN  IF k >= Len(text) THEN <<text>>
        ELSE <<Slice(text, 0, k)>> \o Split(Slice(text, k + 1, Len(text)), sep)

\* StringDecoder.decode_char_codes(nums_str): [ok, text], ok FALSE for None
decode_char_codes(nums_str) ==
    LET parts == Split(nums_str, ",")
        nums  == SelectSeq([k \in 1..Len(parts) |-> PyStrip(parts[k])],
                           LAMBDA n : n # <<>>)
    IN  IF \E k \in 1..Len(nums) : ~CharOfCode(nums[k]).ok
        THEN [ok |-> FALSE, text |-> <<>>]
        ELSE [ok |-> TRUE, text |-> [k \in 1..Len(nums) |-> CharOfCode(nums[k]).c]]

\* re.sub(pattern, repl, text) for a pattern that matches no empty text:
\* MatchEnd(text, p) is the end of the match that starts at offset p (-1 when
\* none starts there), Repl(text, p, e) what the match text[p:e] is replaced by;
\* the scan goes over the offsets from the left, `next` is the offset where the
\* search for the next match starts and `out` the text put out so far
ReSub(text, MatchEnd(_, _), Repl(_, _, _)) ==
    LET Scan(t) ==
            LET Step(p, s) ==
                    IF p < s.next THEN s
                    ELSE LET e == MatchEnd(t, p)
                         IN  IF e > p THEN [next |-> e, out |-> s.out \o Repl(t, p, e)]
                             ELSE [next |-> p + 1, out |-> Append(s.out, t[p + 1])]
            IN  Fold(Step, 0, Len(t) - 1, [next |-> 0, out |-> <<>>]).out
    IN  CHOOSE r \in {Scan(t) : t \in {text}} : TRUE

\* the end of a match of prefix, \s*, `(` at offset p; -1 when there is none
CallOpenEnd(text, p, prefix) ==
    IF ~StartsAt(text, p, prefix) THEN -1
    ELSE Only({IF q < Len(text) /\ text[q + 1] = "(" THEN q + 1 ELSE -1 :
                  q \in {ScanWhile(text, p + Len(prefix), PyWhitespace)}})

\* r'string\.char\s*\(([^)]+)\)' at offset p: the offset of the closing `)`
CharCallClose(text, p) ==
    LET Close(a) ==
            IF a < 0 THEN -1
            ELSE Only({IF c > a /\ c < Len(text) THEN c ELSE -1 :
                          c \in {ScanUntil(text, a, {")"})}})
    IN  Only({Close(a) :
                 a \in {CallOpenEnd(text, p, <<"s","t","r","i","n","g",".","c","h","a","r">>)}})

\* Phase 1 of deobfuscate_internal: string.char(...) becomes a quoted text
DecodeCharCalls(text) ==
    LET MatchEnd(t, p) ==
            Only({IF c >= 0 THEN c + 1 ELSE -1 : c \in {CharCallClose(t, p)}})
        Repl(t, p, e) ==
            Only({IF ~d.ok \/ d.text = <<>> THEN Slice(t, p, e)
                  ELSE <<"\"">> \o d.text \o <<"\"">> :
                     d \in {decode_char_codes(Slice(t, a, e - 1)) :
                               a \in {CallOpenEnd(t, p,
                                          <<"s","t","r","i","n","g",".","c","h","a","r">>)}}})
    IN  ReSub(text, MatchEnd, Repl)

Quotes == {"\"", "'"}

\* r'string\.byte\s*\(\s*["\'](.)["\']\s*\)' at offset p: the offset of (.)
ByteCallChar(text, p) ==
    LET Closed(q) ==
            Only({IF c < Len(text) /\ text[c + 1] = ")" THEN q + 1 ELSE -1 :
                     c \in {ScanWhile(text, q + 3, PyWhitespace)}})
        Quoted(q) ==
            IF /\ q + 3 <= Len(text)
               /\ text[q + 1] \in Quotes /\ text[q + 2] # "\n" /\ text[q + 3] \in Quotes
            THEN Closed(q) ELSE -1
        Open(a) ==
            IF a < 0 THEN -1
            ELSE Only({Quoted(q) : q \in {ScanWhile(text, a, PyWhitespace)}})
    IN  Only({Open(a) :
                 a \in {CallOpenEnd(text, p, <<"s","t","r","i","n","g",".","b","y","t","e">>)}})

\* r'["\'](.)["\']:byte\(\)' matches at offset p
ByteMethodAt(text, p) ==
    /\ p + 3 <= Len(text)
    /\ text[p + 1] \in Quotes /\ text[p + 2] # "\n" /\ text[p + 3] \in Quotes
    /\ StartsAt(text, p + 3, <<":", "b", "y", "t", "e", "(", ")">>)

\* StringDecoder.decode_byte_codes(code)
decode_byte_codes(text) ==
    LET MatchEnd(t, p) ==
            Only({IF c >= 0 THEN ScanWhile(t, c + 2, PyWhitespace) + 1
                  ELSE IF ByteMethodAt(t, p) THEN p + 10 ELSE -1 :
                     c \in {ByteCallChar(t, p)}})
        Repl(t, p, e) ==
            Only({Decimal(Ord(IF c >= 0 THEN t[c + 1] ELSE t[p + 2])) :
                     c \in {ByteCallChar(t, p)}})
    IN  ReSub(text, MatchEnd, Repl)

\* the end of the rest (?:[^q\\]|\\.)*q of a quoted literal from offset i; -1
\* when the text ends first or, without re.DOTALL, a backslash stands before a
\* newline
LiteralEnd(text, i, q, dotall) ==
    LET \* the match goes on at offset k, when it has not ended before it
        Step(k, s) ==
            IF s.ended \/ k # s.pos THEN s
            ELSE IF text[k + 1] = q THEN [pos |-> k + 1, ended |-> TRUE, end |-> k + 1]
            ELSE IF text[k + 1] = "\\"
            THEN IF k + 1 >= Len(text) \/ (~dotall /\ text[k + 2] = "\n")
                 THEN [pos |-> k, ended |-> TRUE, end |-> -1]
                 ELSE [pos |-> k + 2, ended |-> FALSE, end |-> -1]
            ELSE [pos |-> k + 1, ended |-> FALSE, end |-> -1]
    IN  Fold(Step, i, Len(text) - 1, [pos |-> i, ended |-> FALSE, end |-> -1]).end

\* r'"(?:[^"\\]|\\.)*"|\'(?:[^\'\\]|\\.)*\'' at offset p: the end of the match,
\* -1 when none starts at p
StringEnd(text, p, dotall) ==
    IF p < Len(text) /\ text[p + 1] \in Quotes
    THEN LiteralEnd(text, p + 1, text[p + 1], dotall) ELSE -1

OctalDigits == {"0", "1", "2", "3", "4", "5", "6", "7"}

\* the length of the run of characters of `set` at offset p, at most n
RunLength(text, p, set, n) == Min(n, ScanWhile(text, p, set) - p)

AllHex(text, p, n) ==
    p + n <= Len(text) /\ \A k \in 1..n : IsHexDigit(text[p + k])

\* the result of a conversion that raised
Failed == [ok |-> FALSE, text |-> <<>>]

\* the characters after a backslash of the one-character escapes, and what
\* the escape stands for
SimpleEscape ==
    [x \in {"\\", "'", "\"", "n", "r", "t", "a", "b", "f", "v"} |->
        CASE x = "n" -> "\n" [] x = "r" -> "\r" [] x = "t" -> "\t"
          [] x = "a" -> Chr(7) [] x = "b" -> Chr(8)
          [] x = "f" -> Chr(12) [] x = "v" -> Chr(11)
          [] OTHER -> x]

\* the character or escape sequence at offset p of the body of a Python string
\* literal: [ok, next, text], the offset after it and what it stands for; ok
\* FALSE where the literal is no valid Python (a raw line end or NUL, a
\* truncated \x, \u, \U escape, a \N escape)
EscapeAt(body, p) ==
    LET c == body[p + 1]
        d == body[p + 2]
        width == IF d = "x" THEN 2 ELSE IF d = "u" THEN 4 ELSE 8
        oct == RunLength(body, p + 1, OctalDigits, 3)
        bad == [ok |-> FALSE, next |-> p + 1, text |-> <<>>]
        Unit(text, next) == [ok |-> TRUE, next |-> next, text |-> text]
    IN  IF c \in {"\n", "\r", Chr(0)} THEN bad
        ELSE IF c # "\\" THEN Unit(<<c>>, p + 1)
        ELSE IF d = "\n" THEN Unit(<<>>, p + 2)
        ELSE IF d \in DOMAIN SimpleEscape THEN Unit(<<SimpleEscape[d]>>, p + 2)
        ELSE IF d \in OctalDigits
             THEN Unit(<<Chr(DigitsValue(Slice(body, p + 1, p + 1 + oct), 8))>>,
                       p + 1 + oct)
        ELSE IF d \in {"x", "u", "U"}
             THEN IF /\ AllHex(body, p + 2, width)
                     /\ DigitsValue(Slice(body, p + 2, p + 2 + width), 16)
                            <= MaxCodePoint
                  THEN Unit(<<Chr(DigitsValue(Slice(body, p + 2, p + 2 + width), 16))>>,
                            p + 2 + width)
                  ELSE bad
        ELSE IF d = "N" THEN bad
        ELSE Unit(<<"\\", d>>, p + 2)

\* the value of the body of a Python string literal from offset p: [ok, text],
\* ok FALSE where the literal is no valid Python
Unescape(body, p) ==
    LET Step(k, s) ==
            IF ~s.ok \/ k < s.next THEN s
            ELSE LET u == EscapeAt(body, k)
                 IN  [ok |-> u.ok, next |-> u.next, text |-> s.text \o u.text]
        end == Fold(Step, p, Len(body) - 1, [ok |-> TRUE, next |-> p, text |-> <<>>])
    IN  IF end.ok THEN [ok |-> TRUE, text |-> end.text] ELSE Failed

\* ast.literal_eval(s) for a match s of the quoted-literal pattern
literal_eval_string(s) == Unescape(Inner(s), 0)

\* the replacement of a match with an invalid code point
Invalid == "#invalid"

\* chr(int(digits, base)), Invalid where chr raises
ChrOrInvalid(ds, base) ==
    IF DigitsValue(ds, base) > MaxCodePoint THEN Invalid
    ELSE Chr(DigitsValue(ds, base))

\* StringDecoder.decode_escapes(s): [ok, text], ok FALSE when chr raises
decode_escapes(s) ==
    LET HexEnd(t, p) ==
            IF StartsAt(t, p, <<"\\", "x">>) /\ AllHex(t, p + 2, 2) THEN p + 4 ELSE -1
        HexRepl(t, p, e) == <<ChrOrInvalid(Slice(t, p + 2, e), 16)>>
        DecEnd(t, p) ==
            IF t[p + 1] = "\\" /\ RunLength(t, p + 1, DigitChars, 3) > 0
            THEN p + 1 + RunLength(t, p + 1, DigitChars, 3) ELSE -1
        DecRepl(t, p, e) == <<ChrOrInvalid(Slice(t, p + 1, e), 10)>>
        UniClose(t, p) == ScanWhile(t, p + 3, {c \in WordChars : IsHexDigit(c)})
        UniEnd(t, p) ==
            IF /\ StartsAt(t, p, <<"\\", "u", "{">>)
               /\ UniClose(t, p) > p + 3
               /\ UniClose(t, p) < Len(t) /\ t[UniClose(t, p) + 1] = "}"
            THEN UniClose(t, p) + 1 ELSE -1
        UniRepl(t, p, e) == <<ChrOrInvalid(Slice(t, p + 3, e - 1), 16)>>
        out == ReSub(ReSub(ReSub(s, HexEnd, HexRepl), DecEnd, DecRepl), UniEnd, UniRepl)
    IN  IF Contains(out, Invalid) THEN Failed ELSE [ok |-> TRUE, text |-> out]

\* the characters repr() writes as \xhh: the controls and the other
\* non-printable characters below 256, without tab, newline, carriage return
NonPrintable == {Chr(n) : n \in (0..31) \cup (127..160) \cup {173}} \ {"\t", "\n", "\r"}

\* repr(s) of a str
repr(s) ==
    LET q == IF Contains(s, "'") /\ ~Contains(s, "\"") THEN "\"" ELSE "'"
        Esc(c) ==
            IF c = "\\" THEN <<"\\", "\\">>
            ELSE IF c = q THEN <<"\\", q>>
            ELSE IF c = "\n" THEN <<"\\", "n">>
            ELSE IF c = "\r" THEN <<"\\", "r">>
            ELSE IF c = "\t" THEN <<"\\", "t">>
            ELSE IF c \in NonPrintable
                 THEN <<"\\", "x", HexDigits[(Ord(c) \div 16) + 1], HexDigits[(Ord(c) % 16) + 1]>>
            ELSE <<c>>
    IN  <<q>> \o Flatten([k \in 1..Len(s) |-> Esc(s[k])]) \o <<q>>

\* decode_literal of process_string_literals: the text that replaces a literal
decode_literal(s) ==
    Only({IF decoded.ok THEN repr(decoded.text) ELSE s :
             decoded \in {IF val.ok THEN decode_escapes(val.text) ELSE Failed :
                             val \in {literal_eval_string(s)}}})

\* StringDecoder.process_string_literals(code)
process_string_literals(text) ==
    LET MatchEnd(t, p) == StringEnd(t, p, FALSE)
        Repl(t, p, e) == decode_literal(Slice(t, p, e))
    IN  ReSub(text, MatchEnd, Repl)

\* ---------------------------------------- deobfuscate.py: constant folding

RECURSIVE GCD(_, _)
GCD(a, b) == IF b = 0 THEN a ELSE GCD(b, a % b)

Abs(n) == IF n < 0 THEN -n ELSE n

\* floor(n / d) for d # 0
FloorDiv(n, d) == IF d > 0 THEN n \div d ELSE (-n) \div (-d)

RECURSIVE IntPow(_, _)
IntPow(b, e) == IF e = 0 THEN 1 ELSE b * IntPow(b, e - 1)

RECURSIVE NatOf(_)
\* int(ds) for a run of decimal digits
NatOf(ds) ==
    IF ds = <<>> THEN 0
    ELSE NatOf(SubSeq(ds, 1, Len(ds) - 1)) * 10 + HexVal(ds[Len(ds)])

\* a Python number: an int (den = 1) or a float whose value is the fraction
\* num/den in lowest terms; `exact` tells that the double is that fraction, not
\* only the double nearest to it; a float computed from a double that is not
\* exact is outside what is modelled (kind "unknown")
Number(kind, n, d) ==
    LET g == GCD(Abs(n), Abs(d))
        num == (IF d < 0 THEN -n ELSE n) \div g
        den == Abs(d) \div g
    IN  [kind |-> kind, num |-> num, den |-> den,
         exact |-> \E k \in 0..30 : den = IntPow(2, k)]
Unknown == [kind |-> "unknown", num |-> 0, den |-> 1, exact |-> FALSE]

\* the result of an evaluation that raised (SyntaxError, ZeroDivisionError)
EvalError == [ok |-> FALSE, val |-> Unknown, pos |-> 0]
Value(v, p) == [ok |-> TRUE, val |-> v, pos |-> p]

\* a op b of Python for the operators +, -, *, /, //, %, **: [ok, val, pos]
Arith(op, a, b, p) ==
    LET float == a.kind = "float" \/ b.kind = "float" \/ op = "/"
                    \/ (op = "**" /\ b.num < 0)
        kind == IF float THEN "float" ELSE "int"
        quot == FloorDiv(a.num * b.den, a.den * b.num)
    IN  IF op \in {"/", "//", "%"} /\ b.kind # "unknown" /\ b.num = 0 THEN EvalError
        ELSE IF op = "**" /\ a.kind # "unknown" /\ b.kind # "unknown"
                /\ a.num = 0 /\ b.num < 0 THEN EvalError
        ELSE IF "unknown" \in {a.kind, b.kind} \/ (float /\ ~(a.exact /\ b.exact))
             THEN Value(Unknown, p)
        ELSE CASE op = "+" -> Value(Number(kind, a.num * b.den + b.num * a.den, a.den * b.den), p)
               [] op = "-" -> Value(Number(kind, a.num * b.den - b.num * a.den, a.den * b.den), p)
               [] op = "*" -> Value(Number(kind, a.num * b.num, a.den * b.den), p)
               [] op = "/" -> Value(Number(kind, a.num * b.den, a.den * b.num), p)
               [] op = "//" -> Value(Number(kind, quot, 1), p)
               [] op = "%" -> Value(Number(kind, a.num * b.den - quot * b.num * a.den,
                                           a.den * b.den), p)
               [] op = "**" ->
                      IF b.den # 1 THEN Value(Unknown, p)
                      ELSE IF b.num >= 0
                      THEN Value(Number(kind, IntPow(a.num, b.num), IntPow(a.den, b.num)), p)
                      ELSE Value(Number(kind, IntPow(a.den, -b.num), IntPow(a.num, -b.num)), p)

\* the blanks Python's tokenizer skips: a newline only inside parentheses
Blanks(paren) == IF paren THEN {" ", "\t", "\n"} ELSE {" ", "\t"}

RECURSIVE Eval(_, _, _, _, _)
\* eval of Python on the text t from offset p by one rule of its grammar,
\* inside parentheses or not: [ok, val, pos]. The rules:
\*   "expr"     term (('+' | '-') term)*
\*   "sum"      the rest of an expression after the terms whose sum is acc
\*   "term"     factor (('*' | '/' | '//' | '%') factor)*
\*   "product"  the rest of a term after the factors whose product is acc
\*   "factor"   ('+' | '-') factor | power
\*   "power"    atom ['**' factor]
\*   "atom"     a number literal or a parenthesized expression
\* (acc is read by "sum" and "product" only)
Eval(rule, t, p, paren, acc) ==
    LET q == ScanWhile(t, p, Blanks(paren))
    IN  CASE rule = "atom" ->
                 LET i == ScanWhile(t, q, DigitChars)
                     dot == i < Len(t) /\ t[i + 1] = "."
                     f == IF dot THEN ScanWhile(t, i + 1, DigitChars) ELSE i
                     whole == Slice(t, q, i)
                     frac == Slice(t, i + 1, f)
                     inner == Eval("expr", t, q + 1, TRUE, Unknown)
                     close == ScanWhile(t, inner.pos, Blanks(TRUE))
                 IN  IF q < Len(t) /\ t[q + 1] = "("
                     THEN IF inner.ok /\ close < Len(t) /\ t[close + 1] = ")"
                          THEN Value(inner.val, close + 1) ELSE EvalError
                     ELSE IF dot
                     THEN IF whole = <<>> /\ frac = <<>> THEN EvalError
                          ELSE Value(Number("float", NatOf(whole \o frac),
                                            IntPow(10, Len(frac))), f)
                     ELSE IF whole = <<>>
                             \/ (Len(whole) > 1 /\ whole[1] = "0" /\ NatOf(whole) # 0)
                          THEN EvalError
                     ELSE Value(Number("int", NatOf(whole), 1), i)
          [] rule = "power" ->
                 LET a == Eval("atom", t, p, paren, Unknown)
                     star == ScanWhile(t, a.pos, Blanks(paren))
                     e == Eval("factor", t, star + 2, paren, Unknown)
                 IN  IF ~a.ok THEN EvalError
                     ELSE IF StartsAt(t, star, <<"*", "*">>)
                     THEN IF e.ok THEN Arith("**", a.val, e.val, e.pos) ELSE EvalError
                     ELSE a
          [] rule = "factor" ->
                 LET f == Eval("factor", t, q + 1, paren, Unknown)
                 IN  IF q < Len(t) /\ t[q + 1] \in {"+", "-"}
                     THEN IF ~f.ok THEN EvalError
                          ELSE IF t[q + 1] = "+" \/ f.val.kind = "unknown" THEN f
                          ELSE Value([f.val EXCEPT !.num = -f.val.num], f.pos)
                     ELSE Eval("power", t, p, paren, Unknown)
          [] rule = "product" ->
                 LET op == IF StartsAt(t, q, <<"*", "*">>) THEN "**"
                           ELSE IF StartsAt(t, q, <<"/", "/">>) THEN "//"
                           ELSE IF q < Len(t) /\ t[q + 1] \in {"*", "/", "%"} THEN t[q + 1]
                           ELSE ""
                     f == Eval("factor", t, q + Len(IF op = "//" THEN <<1, 2>> ELSE <<1>>),
                               paren, Unknown)
                     r == Arith(op, acc, f.val, f.pos)
                 IN  IF op = "" THEN Value(acc, p)
                     ELSE IF op = "**" \/ ~f.ok \/ ~r.ok THEN EvalError
                     ELSE Eval("product", t, r.pos, paren, r.val)
          [] rule = "term" ->
                 LET f == Eval("factor", t, p, paren, Unknown)
                 IN  IF f.ok THEN Eval("product", t, f.pos, paren, f.val) ELSE EvalError
          [] rule = "sum" ->
                 LET f == Eval("term", t, q + 1, paren, Unknown)
                     r == Arith(t[q + 1], acc, f.val, f.pos)
                 IN  IF ~(q < Len(t) /\ t[q + 1] \in {"+", "-"}) THEN Value(acc, p)
                     ELSE IF ~f.ok \/ ~r.ok THEN EvalError
                     ELSE Eval("sum", t, r.pos, paren, r.val)
          [] rule = "expr" ->
                 LET f == Eval("term", t, p, paren, Unknown)
                 IN  IF f.ok THEN Eval("sum", t, f.pos, paren, f.val) ELSE EvalError

\* eval(py_expr): [ok, val, pos], ok FALSE when it raises
PyEval(t) ==
    Only({IF r.ok /\ ScanWhile(t, r.pos, Blanks(FALSE)) = Len(t) THEN r ELSE EvalError :
             r \in {Eval("expr", t, 0, FALSE, Unknown)}})

\* str(n) of an int
IntStr(n) == IF n < 0 THEN <<"-">> \o Decimal(-n) ELSE Decimal(n)

RECURSIVE FractionDigits(_, _, _)
\* the decimal digits of r/d after the point, at most n of them
FractionDigits(r, d, n) ==
    IF r = 0 \/ n = 0 THEN <<>>
    ELSE <<Decimal((r * 10) \div d)[1]>> \o FractionDigits((r * 10) % d, d, n - 1)

\* what stands for the text of a float that is outside what is modelled
Unmodelled == <<"#float">>

\* str(x) of a float that is no integer, num/den in lowest terms: the decimal
\* fraction when it ends within 15 significant digits and Python writes it
\* without an exponent
FloatStr(num, den) ==
    LET whole == Abs(num) \div den
        digits == FractionDigits(Abs(num) % den, den, 16)
        lead == ScanWhile(digits, 0, {"0"})
        sig == IF whole = 0 THEN Len(digits) - lead ELSE Len(Decimal(whole)) + Len(digits)
    IN  IF den > 100000000 \/ sig > 15 \/ Len(digits) = 16 \/ (whole = 0 /\ lead >= 4)
        THEN Unmodelled
        ELSE (IF num < 0 THEN <<"-">> ELSE <<>>) \o Decimal(whole) \o <<".">> \o digits

\* c.isdigit() or c in ALLOWED_OPS
SafeChars ==
    DigitChars \cup {"+", "-", "*", "/", "%", "^", "(", ")", ".", " ", "\t", "\n"}

\* ExpressionEvaluator.evaluate_numeric(expr): [ok, text], ok FALSE for None
evaluate_numeric(expr) ==
    LET \* expr.replace('^', '**')
        py_expr(e) == Flatten([k \in 1..Len(e) |->
                                  IF e[k] = "^" THEN <<"*", "*">> ELSE <<e[k]>>])
        \* the text of the result r of eval
        Result(r) ==
            IF ~r.ok THEN Failed
            ELSE [ok |-> TRUE,
                  text |-> IF r.val.kind = "unknown" THEN Unmodelled
                           ELSE IF r.val.den = 1 THEN IntStr(r.val.num)
                           ELSE FloatStr(r.val.num, r.val.den)]
    IN  Only({IF \E k \in 1..Len(e) : e[k] \notin SafeChars THEN Failed
              ELSE Only({Result(r) : r \in {PyEval(py_expr(e))}}) :
                 e \in {PyStrip(expr)}})

\* the class [\d\+\-\*\/\^\.\s] of the two expressions of fold_constants
FoldChars == DigitChars \cup {"+", "-", "*", "/", "^", "."} \cup PyWhitespace

\* r'(\b[a-zA-Z_]\w*)\s*=\s*([\d\+\-\*\/\^\.\s]+)' at offset p: the offset
\* after `=`, -1 when no match starts at p
AssignEq(text, p) ==
    LET w == ScanWhile(text, p, WordChars)
        q == ScanWhile(text, w, PyWhitespace)
    IN  IF /\ p < Len(text) /\ text[p + 1] \in WordChars \ DigitChars
           /\ (p = 0 \/ text[p] \notin WordChars)
           /\ q < Len(text) /\ text[q + 1] = "="
           /\ ScanWhile(text, q + 1, FoldChars) > q + 1
        THEN q + 1 ELSE -1

\* ExpressionEvaluator.fold_constants(code)
fold_constants(text) ==
    LET ParenEnd(t, p) ==
            LET c == ScanWhile(t, p + 1, FoldChars)
            IN  IF t[p + 1] = "(" /\ c > p + 1 /\ c < Len(t) /\ t[c + 1] = ")"
                THEN c + 1 ELSE -1
        fold_paren(t, p, e) ==
            Only({IF result.ok THEN result.text ELSE Slice(t, p, e) :
                     result \in {evaluate_numeric(Slice(t, p + 1, e - 1))}})
        AssignEnd(t, p) ==
            Only({IF eq >= 0 THEN ScanWhile(t, eq, FoldChars) ELSE -1 :
                     eq \in {AssignEq(t, p)}})
        fold_assign(t, p, e) ==
            Only({IF result.ok
                  THEN Slice(t, p, ScanWhile(t, p, WordChars))
                           \o <<" ", "=", " ">> \o result.text
                  ELSE Slice(t, p, e) :
                     result \in {evaluate_numeric(Slice(t, AssignEq(t, p), e))}})
    IN  ReSub(ReSub(text, ParenEnd, fold_paren), AssignEnd, fold_assign)

\* ------------------------------- deobfuscate.py: string concatenations

\* a match of r'(STR)\s*\.\.\s*(STR)' at offset p, STR the quoted-literal
\* pattern: where group 1 ends, where group 2 starts, where the match ends (-1
\* when none starts at p)
ConcatMatch(text, p) ==
    LET e1 == StringEnd(text, p, FALSE)
        d  == ScanWhile(text, e1, PyWhitespace)
        s2 == ScanWhile(text, d + 2, PyWhitespace)
        e  == StringEnd(text, s2, FALSE)
    IN  IF e1 >= 0 /\ StartsAt(text, d, <<".", ".">>) /\ e >= 0
        THEN [e1 |-> e1, s2 |-> s2, e |-> e]
        ELSE [e1 |-> -1, s2 |-> -1, e |-> -1]

\* pattern.sub(merge_pair, code) of merge_string_concat
MergePairs(text) ==
    LET MatchEnd(t, p) == ConcatMatch(t, p).e
        merge_pair(t, p, e) ==
            LET m  == ConcatMatch(t, p)
                v1 == literal_eval_string(Slice(t, p, m.e1))
                v2 == literal_eval_string(Slice(t, m.s2, e))
            IN  IF v1.ok /\ v2.ok THEN repr(v1.text \o v2.text) ELSE Slice(t, p, e)
    IN  ReSub(text, MatchEnd, merge_pair)

\* the bound `iterations < 100` of merge_string_concat
MaxMergeIterations == 100

\* prev = None
NoText == <<"#None">>

RECURSIVE MergeLoop(_, _, _)
\* the loop `while prev != code and iterations < 100`
MergeLoop(prev, code, iterations) ==
    IF prev # code /\ iterations < MaxMergeIterations
    THEN MergeLoop(code, MergePairs(code), iterations + 1)
    ELSE code

\* ConcatSimplifier.merge_string_concat(code)
merge_string_concat(code) == MergeLoop(NoText, code, 0)

\* a match of
\* r'table\.concat\s*\(\s*\{([^}]+)\}\s*(?:,\s*(["\'].*?["\']))?\s*\)' at offset
\* p: [e, i0, i1, s0, s1], the end of the match (-1 when none starts at p), the
\* span of group 1 and the span of group 2 (s0 = s1 when it took no part)
TableConcatMatch(text, p) ==
    LET n  == Len(text)
        a  == CallOpenEnd(text, p, <<"t","a","b","l","e",".","c","o","n","c","a","t">>)
        b  == ScanWhile(text, a, PyWhitespace)
        c  == ScanUntil(text, b + 1, {"}"})
        d  == ScanWhile(text, c + 1, PyWhitespace)
        s  == ScanWhile(text, d + 1, PyWhitespace)
        ClosesAt(r) == r < n /\ text[r + 1] = ")"
        \* the closing quotes the lazy .*? can stop before
        closes == {q \in (s + 1)..(ScanUntil(text, s + 1, {"\n"}) - 1) :
                      /\ text[q + 1] \in Quotes
                      /\ ClosesAt(ScanWhile(text, q + 1, PyWhitespace))}
        q  == CHOOSE x \in closes : \A y \in closes : x <= y
        none == [e |-> -1, i0 |-> 0, i1 |-> 0, s0 |-> 0, s1 |-> 0]
    IN  IF ~(a >= 0 /\ b < n /\ text[b + 1] = "{" /\ c > b + 1 /\ c < n) THEN none
        ELSE IF d < n /\ text[d + 1] = "," /\ s < n /\ text[s + 1] \in Quotes
                /\ closes # {}
        THEN [e |-> ScanWhile(text, q + 1, PyWhitespace) + 1,
              i0 |-> b + 1, i1 |-> c, s0 |-> s, s1 |-> q + 1]
        ELSE IF ClosesAt(d)
        THEN [e |-> d + 1, i0 |-> b + 1, i1 |-> c, s0 |-> 0, s1 |-> 0]
        ELSE none

\* str(ast.literal_eval(i)) for an item i of the table: [ok, text], ok FALSE
\* when literal_eval raises; the items modelled are one quoted literal, a run
\* of at most 9 digits, True, False, None and the other names (which raise);
\* every other item is outside what is modelled
ItemText(i) ==
    IF i = <<>> THEN Failed
    ELSE IF i[1] \in Quotes
    THEN IF StringEnd(i, 0, TRUE) = Len(i) THEN literal_eval_string(i)
         ELSE [ok |-> TRUE, text |-> Unmodelled]
    ELSE IF \A k \in 1..Len(i) : i[k] \in DigitChars
    THEN IF Len(i) > 9 THEN [ok |-> TRUE, text |-> Unmodelled]
         ELSE IF i[1] = "0" /\ NatOf(i) # 0 THEN Failed
         ELSE [ok |-> TRUE, text |-> Decimal(NatOf(i))]
    ELSE IF i[1] \notin DigitChars /\ \A k \in 1..Len(i) : i[k] \in WordChars
    THEN IF i \in {<<"T","r","u","e">>, <<"F","a","l","s","e">>, <<"N","o","n","e">>}
         THEN [ok |-> TRUE, text |-> i]
         ELSE Failed
    ELSE [ok |-> TRUE, text |-> Unmodelled]

RECURSIVE Join(_, _)
\* separator.join(texts)
Join(texts, separator) ==
    IF texts = <<>> THEN <<>>
    ELSE IF Len(texts) = 1 THEN texts[1]
    ELSE texts[1] \o separator \o Join(Tail(texts), separator)

\* ConcatSimplifier.simplify_table_concat(code)
simplify_table_concat(code) ==
    LET MatchEnd(t, p) == TableConcatMatch(t, p).e
        \* the text in the place of the match text[p:e] = m, from the texts
        \* `values` of the items and the text `separator` of group 2
        Joined(t, p, e, values, separator) ==
            IF (\E k \in 1..Len(values) : ~values[k].ok) \/ ~separator.ok
            THEN Slice(t, p, e)
            ELSE IF (\E k \in 1..Len(values) : values[k].text = Unmodelled)
                    \/ separator.text = Unmodelled
            THEN Unmodelled
            ELSE repr(Join([k \in 1..Len(values) |-> values[k].text], separator.text))
        Values(item_list) ==
            [k \in 1..Len(item_list) |-> ItemText(PyStrip(item_list[k]))]
        Separator(sep) ==
            IF sep = <<>> THEN [ok |-> TRUE, text |-> <<>>] ELSE ItemText(sep)
        simplify(t, p, e) ==
            Only({Only({Joined(t, p, e, values, separator) :
                           values \in {Values(item_list) :
                                          item_list \in {Split(Slice(t, m.i0, m.i1), ",")}},
                           separator \in {Separator(sep) : sep \in {Slice(t, m.s0, m.s1)}}}) :
                     m \in {TableConcatMatch(t, p)}})
    IN  ReSub(code, MatchEnd, simplify)

\* ------------------------------------ deobfuscate.py: constant propagation

\* `while j < len(tokens) and tokens[j].type == TokenType.WHITESPACE: j += 1`
\* (tokens[j] is toks[j + 1])
SkipWs(toks, j) ==
    IF j >= Len(toks) THEN j
    ELSE CHOOSE m \in j..Len(toks) :
             /\ m = Len(toks) \/ toks[m + 1].type # "WHITESPACE"
             /\ \A k \in j..(m - 1) : toks[k + 1].type = "WHITESPACE"

\* j < len(tokens) and tokens[j] is the operator `=`
IsAssignOp(toks, j) ==
    j < Len(toks) /\ toks[j + 1].type = "OPERATOR" /\ toks[j + 1].value = <<"=">>

\* "Detect: local NAME = LITERAL" at tokens[i]: whether it is detected, and
\* the indices of NAME and LITERAL
Declaration(toks, i) ==
    LET j == SkipWs(toks, i + 1)
        k == SkipWs(toks, j + 1)
        m == SkipWs(toks, k + 1)
    IN  [found |-> /\ i + 3 < Len(toks)
                   /\ toks[i + 1].type = "KEYWORD"
                   /\ toks[i + 1].value = <<"l", "o", "c", "a", "l">>
                   /\ j + 2 < Len(toks) /\ toks[j + 1].type = "IDENTIFIER"
                   /\ k + 1 < Len(toks) /\ IsAssignOp(toks, k)
                   /\ m < Len(toks) /\ toks[m + 1].type \in {"NUMBER", "STRING"},
         name |-> j, literal |-> m]

\* a detector that takes no token for the start of a reassignment
ReassignmentNever(toks, i) == FALSE

\* "Detect reassignment: NAME = ..." at tokens[i]
Reassignment(toks, i) ==
    /\ toks[i + 1].type = "IDENTIFIER" /\ i + 1 < Len(toks)
    /\ IsAssignOp(toks, SkipWs(toks, i + 1))

\* is_assignment of "Check context - don't replace in assignments"
is_assignment(toks, i) == IsAssignOp(toks, SkipWs(toks, i + 1))

\* the dict d with d[key] = value
DictSet(d, key, value) ==
    [x \in DOMAIN d \cup {key} |-> IF x = key THEN value ELSE d[x]]

\* the dict d after `del d[key]`
DictDel(d, key) == [x \in DOMAIN d \ {key} |-> d[x]]

\* {}
EmptyDict == [x \in {} |-> <<>>]

\* the locals of propagate before its loop
PropagateStart ==
    [i |-> 0, constants |-> EmptyDict, assignments |-> EmptyDict, result |-> <<>>]

\* one iteration of `while i < len(tokens)` of propagate from the locals s
PropagateToken(toks, s) ==
    LET i    == s.i
        tok  == toks[i + 1]
        decl == Declaration(toks, i)
        c1   == IF decl.found
                THEN DictSet(s.constants, toks[decl.name + 1].value,
                             toks[decl.literal + 1].value)
                ELSE s.constants
        a1   == IF decl.found THEN DictSet(s.assignments, toks[decl.name + 1].value, 1)
                ELSE s.assignments
        c2   == IF Reassignment(toks, i) /\ tok.value \in DOMAIN c1
                THEN DictDel(c1, tok.value) ELSE c1
        replace == /\ tok.type = "IDENTIFIER" /\ tok.value \in DOMAIN c2
                   /\ ~is_assignment(toks, i)
        literal == c2[tok.value]
    IN  [i |-> i + 1, constants |-> c2, assignments |-> a1,
         result |-> Append(s.result,
                           IF replace
                           THEN [type |-> IF literal[1] \in Quotes THEN "STRING"
                                          ELSE "NUMBER",
                                 value |-> literal]
                           ELSE tok)]

\* ConstantPropagator.propagate(tokens): the loop run for i = 0, 1, ...
propagate(toks) ==
    LET Step(k, s) == PropagateToken(toks, s)
    IN  Fold(Step, 0, Len(toks) - 1, PropagateStart).result

\* ------------------------------------------- deobfuscate.py: the pipeline

\* Phases 1 to 3 of deobfuscate_internal
DecodePhases(code) == process_string_literals(decode_byte_codes(DecodeCharCalls(code)))

\* a match of LoadstringInliner.PATTERN at offset p: [e, s0, s1], the end of
\* the match (-1 when none starts at p) and the span of group 2
LoadMatch(text, p) ==
    LET name == IF StartsAt(text, p, <<"l","o","a","d","s","t","r","i","n","g">>)
                THEN <<"l","o","a","d","s","t","r","i","n","g">>
                ELSE <<"l","o","a","d">>
        a  == CallOpenEnd(text, p, name)
        s0 == ScanWhile(text, a, PyWhitespace)
        s1 == StringEnd(text, s0, TRUE)
        c  == ScanWhile(text, s1, PyWhitespace)
    IN  IF a >= 0 /\ s1 >= 0 /\ c < Len(text) /\ text[c + 1] = ")"
        THEN [e |-> c + 1, s0 |-> s0, s1 |-> s1]
        ELSE [e |-> -1, s0 |-> 0, s1 |-> 0]

\* payload of replace_loadstring: decode_escapes(ast.literal_eval(raw_string)),
\* [ok, text], ok FALSE when one of the two raises
Payload(raw_string) ==
    Only({IF payload.ok THEN decode_escapes(payload.text) ELSE Failed :
             payload \in {literal_eval_string(raw_string)}})

\* a recursive call that keeps the budget of its caller
PayloadBudgetSame(max_depth) == max_depth

\* the budget `max_depth - 1` of the recursive call of replace_loadstring
PayloadBudget(max_depth) == max_depth - 1

\* f"(function()\n{deob_payload}\nend)"
WrapFunction(deob_payload) ==
    <<"(", "f", "u", "n", "c", "t", "i", "o", "n", "(", ")", "\n">>
        \o deob_payload \o <<"\n", "e", "n", "d", ")">>

\* Phase 8: r'\(\s*(STR)\s*\)' becomes \1
RemoveParens(code) ==
    LET Open(t, p) == ScanWhile(t, p + 1, PyWhitespace)
        MatchEnd(t, p) ==
            LET e == StringEnd(t, Open(t, p), FALSE)
                c == ScanWhile(t, e, PyWhitespace)
            IN  IF t[p + 1] = "(" /\ e >= 0 /\ c < Len(t) /\ t[c + 1] = ")"
                THEN c + 1 ELSE -1
        Repl(t, p, e) == Slice(t, Open(t, p), StringEnd(t, Open(t, p), FALSE))
    IN  ReSub(code, MatchEnd, Repl)

\* re.sub of a run of at least `least` characters of `set` by `by`
SubRuns(code, set, least, by) ==
    LET MatchEnd(t, p) ==
            IF ScanWhile(t, p, set) - p >= least THEN ScanWhile(t, p, set) ELSE -1
        Repl(t, p, e) == by
    IN  ReSub(code, MatchEnd, Repl)

\* Phase 9: clean up
CleanUp(code) ==
    PyStrip(SubRuns(SubRuns(SubRuns(code, {";"}, 2, <<";">>),
                            {" ", "\t"}, 1, <<" ">>),
                    {"\n"}, 3, <<"\n", "\n">>))

\* Phases 5 to 9 of deobfuscate_internal: [raised, text], raised when the
\* tokenizer of Phase 7 raises
FoldPhases(code) ==
    Only({IF tk.raised THEN [raised |-> TRUE, text |-> <<>>]
          ELSE [raised |-> FALSE,
                text |-> CleanUp(RemoveParens(JoinValues(propagate(tk.tokens))))] :
             tk \in {Tokenize("deobfuscate",
                               simplify_table_concat(
                                   merge_string_concat(fold_constants(code))))}})

RECURSIVE deobfuscate_internal(_, _)

\* LoadstringInliner.inline(code, max_depth)
inline(code, max_depth) ==
    LET MatchEnd(t, p) == LoadMatch(t, p).e
        Wrapped(t, p, e, deob_payload) ==
            IF ~deob_payload.raised THEN WrapFunction(deob_payload.text)
            ELSE Slice(t, p, e)
        Inlined(t, p, e, payload) ==
            IF ~payload.ok THEN Slice(t, p, e)
            ELSE Only({Wrapped(t, p, e, deob_payload) :
                          deob_payload \in {deobfuscate_internal(payload.text,
                                                                 PayloadBudget(max_depth))}})
        replace_loadstring(t, p, e) ==
            Only({Inlined(t, p, e, payload) :
                     payload \in {Payload(Slice(t, m.s0, m.s1)) : m \in {LoadMatch(t, p)}}})
    IN  IF max_depth <= 0 THEN code ELSE ReSub(code, MatchEnd, replace_loadstring)

\* Deobfuscator.deobfuscate_internal(code, max_depth): [raised, text]
deobfuscate_internal(code, max_depth) ==
    FoldPhases(inline(DecodePhases(code), max_depth))

\* ----------------------------------------------------------------- the state

VARIABLES
    \* a run of one LuaTokenizer
    impl,        \* which file's LuaTokenizer runs
    code,        \* LuaTokenizer.code (lua_tokenizer.py: text)
    pos,         \* LuaTokenizer.pos (lua_tokenizer.py: i)
    tokens,      \* the list `tokens` of tokenize
    status,      \* "run" inside the loop, "done" after return, "raised" after a raise
    \* a call of LuaMinifier.minify
    source,      \* the argument `code`
    rename_vars, \* the argument rename_vars
    aggressive,  \* the argument aggressive
    mtokens,     \* the local `tokens`
    minified,    \* the local `minified`, at the end the returned text
    mpc,         \* the statement of minify that runs next
    \* a call of VariableRenamer.rename
    rtokens,     \* the argument `tokens`
    local_vars,  \* `local_vars` of rename
    var_map,     \* `var_map` of rename
    result,      \* the returned token list
    rpc,         \* the statement of rename that runs next
    \* a call of ConstantPropagator.propagate
    ptokens,     \* the argument `tokens`
    pi,          \* the local `i`
    constants,   \* the local `constants`
    assignments, \* the local `assignments`
    presult,     \* the local `result`
    ppc,         \* "loop" inside the loop, "done" after return
    \* a call of Deobfuscator.deobfuscate_internal
    dcode,       \* the argument `code`
    budget,      \* the argument max_depth
    stack,       \* the calls of deobfuscate_internal in progress, outermost first
    returned,    \* what the call returned, [raised, text]
    dpc,         \* "run" during the call, "done" after return, "raised" after a raise
    \* a call of BlockEngine.process
    etokens,     \* BlockEngine.tokens
    index,       \* BlockEngine.index
    indent,      \* BlockEngine.indent
    mode,        \* BlockEngine.mode
    output,      \* BlockEngine.output
    epc,         \* "loop" inside the loop, "done" after return
    \* a call of beautify (beautify.py) or of LuaBeautifier.beautify (deobfuscate.py)
    bimpl,       \* which file's LuaBeautifier runs
    btext,       \* the argument `code`
    unit,        \* LuaBeautifier.indent, the indent unit
    btokens,     \* the tokens the loop goes over
    bi,          \* LuaBeautifier.i (deobfuscate.py: the local i)
    level,       \* LuaBeautifier.level
    bout,        \* LuaBeautifier.output (deobfuscate.py: the local output), a list of texts
    bresult,     \* the returned text
    bpass,       \* 1 in the first call, 2 in the call on the text the first call returned
    bfirst,      \* the text the first call returned
    bpc,         \* the statement that runs next, "raised" after a raise
    \* a call of one pass of the deobfuscator on a text
    xpass,       \* the pass that is called
    xin,         \* the argument `code`
    xcode,       \* the local `code`, at the end the returned text
    xprev,       \* the local `prev` of merge_string_concat
    iterations,  \* the local `iterations` of merge_string_concat
    xpc,         \* "call" before the pass, "loop" inside the loop, "done" after return
    \* a call of analyze_scope, token by token
    stokens,     \* the argument `tokens`
    si,          \* the local `i`
    scopes,      \* the local `scopes`, the stack of sets of names
    all_locals,  \* the returned set
    spc,         \* "loop" inside the loop, "done" after return
    \* a call of optimize_numbers on the tokens of a text
    ntext,       \* the text that is tokenized
    ntokens,     \* the argument `tokens`
    nresult,     \* the returned list `result`
    npc          \* "tokenize" before the tokenizer, "optimize" before optimize_numbers, "done" or "raised" after

tokVars == <<impl, code, pos, tokens, status>>
minVars == <<source, rename_vars, aggressive, mtokens, minified, mpc>>
renVars == <<rtokens, local_vars, var_map, result, rpc>>
propVars == <<ptokens, pi, constants, assignments, presult, ppc>>
deobVars == <<dcode, budget, stack, returned, dpc>>
blockVars == <<etokens, index, indent, mode, output, epc>>
beautVars == <<bimpl, btext, unit, btokens, bi, level, bout, bresult, bpass, bfirst, bpc>>
passVars == <<xpass, xin, xcode, xprev, iterations, xpc>>
scopeVars == <<stokens, si, scopes, all_locals, spc>>
numVars == <<ntext, ntokens, nresult, npc>>
vars == <<tokVars, minVars, renVars, propVars, deobVars, blockVars, beautVars, passVars, scopeVars, numVars>>
\* the variables that a tokenizer run, a call of minify, of rename, of propagate,
\* of deobfuscate_internal leave alone
notTok == <<minVars, renVars, propVars, deobVars, blockVars, beautVars, passVars, scopeVars, numVars>>
notMin == <<tokVars, renVars, propVars, deobVars, blockVars, beautVars, passVars, scopeVars, numVars>>
notRen == <<tokVars, minVars, propVars, deobVars, blockVars, beautVars, passVars, scopeVars, numVars>>
notProp == <<tokVars, minVars, renVars, deobVars, blockVars, beautVars, passVars, scopeVars, numVars>>
notDeob == <<tokVars, minVars, renVars, propVars, blockVars, beautVars, passVars, scopeVars, numVars>>
notBlock == <<tokVars, minVars, renVars, propVars, deobVars, beautVars, passVars, scopeVars, numVars>>
notBeaut == <<tokVars, minVars, renVars, propVars, deobVars, blockVars, passVars, scopeVars, numVars>>
notPass == <<tokVars, minVars, renVars, propVars, deobVars, blockVars, beautVars, scopeVars, numVars>>
notScope == <<tokVars, minVars, renVars, propVars, deobVars, blockVars, beautVars, passVars, numVars>>
notNum == <<tokVars, minVars, renVars, propVars, deobVars, blockVars, beautVars, passVars, scopeVars>>

\* no tokenizer run, no call of minify, of rename, of propagate, of
\* deobfuscate_internal in progress
TokIdle ==
    impl = "none" /\ code = <<>> /\ pos = 0 /\ tokens = <<>> /\ status = "idle"
MinIdle ==
    /\ source = <<>> /\ rename_vars = FALSE /\ aggressive = FALSE
    /\ mtokens = <<>> /\ minified = <<>> /\ mpc = "idle"
RenIdle ==
    /\ rtokens = <<>> /\ local_vars = {} /\ var_map = <<>> /\ result = <<>>
    /\ rpc = "idle"
PropIdle ==
    /\ ptokens = <<>> /\ pi = 0 /\ constants = <<>> /\ assignments = <<>>
    /\ presult = <<>> /\ ppc = "idle"
DeobIdle ==
    /\ dcode = <<>> /\ budget = 0 /\ stack = <<>>
    /\ returned = [raised |-> FALSE, text |-> <<>>] /\ dpc = "idle"
BlockIdle ==
    /\ etokens = <<>> /\ index = 0 /\ indent = 0 /\ mode = "normal" /\ output = <<>> /\ epc = "idle"
BeautIdle ==
    /\ bimpl = "none" /\ btext = <<>> /\ unit = <<>> /\ btokens = <<>> /\ bi = 0 /\ level = 0
    /\ bout = <<>> /\ bresult = <<>> /\ bpass = 0 /\ bfirst = <<>> /\ bpc = "idle"
PassIdle ==
    /\ xpass = "none" /\ xin = <<>> /\ xcode = <<>> /\ xprev = <<>> /\ iterations = 0 /\ xpc = "idle"
ScopeIdle ==
    /\ stokens = <<>> /\ si = 0 /\ scopes = <<>> /\ all_locals = {} /\ spc = "idle"
NumIdle ==
    /\ ntext = <<>> /\ ntokens = <<>> /\ nresult = <<>> /\ npc = "idle"

\* ------------------------------------------------ state of the tokenizer runs

\* all texts over S of length at most n
SeqsUpTo(S, n) == UNION {[1..k -> S] : k \in 0..n}

\* the characters of the exhaustive inputs: digits, brackets, blank, quote,
\* dash, newline, a letter that is also the exponent mark, and the dot
TokAlphabet == {"0", "1", "[", "]", " ", "\"", "-", "\n", "e", "."}

\* long-bracket inputs: an optional `--`, an opener of level n, a body, an
\* optional closer of level m (m = n or not), and an optional following line
BracketInputs ==
    { lead \o Prefix(n) \o body \o closer \o tail :
        lead \in {<<>>, <<"-", "-">>},
        n \in 0..MaxLevel,
        body \in SeqsUpTo({"x", "]"}, MaxBodyLen),
        closer \in {<<>>} \cup {Suffix(m) : m \in 0..MaxLevel},
        tail \in {<<>>, <<"\n", "y">>} }

TokInputs == SeqsUpTo(TokAlphabet, MaxTextLen) \cup BracketInputs

TokInit ==
    /\ impl \in Impls
    /\ code \in TokInputs
    /\ pos = 0
    /\ tokens = <<>>
    /\ status = "run"
    /\ MinIdle /\ RenIdle /\ PropIdle /\ DeobIdle /\ BlockIdle /\ BeautIdle /\ PassIdle /\ ScopeIdle /\ NumIdle

\* one iteration of `while self.pos < self.length` of the running tokenizer
TokenizeStep(which) ==
    /\ impl = which
    /\ status = "run"
    /\ pos < Len(code)
    /\ LET r == ReadToken(which, code, pos)
       IN  /\ pos' = r.pos
           /\ tokens' = tokens \o r.toks
           /\ status' = IF r.raised THEN "raised" ELSE "run"
    /\ UNCHANGED <<impl, code, notTok>>

SharedTokenizeStep == TokenizeStep("shared")
MinifyTokenizeStep == TokenizeStep("minify")
BeautifyTokenizeStep == TokenizeStep("beautify")
DeobTokenizeStep == TokenizeStep("deobfuscate")

\* `return tokens` when the loop condition fails
TokenizeReturn ==
    /\ status = "run"
    /\ pos >= Len(code)
    /\ status' = "done"
    /\ UNCHANGED <<impl, code, pos, tokens, notTok>>

TokNext ==
    \/ SharedTokenizeStep
    \/ MinifyTokenizeStep
    \/ BeautifyTokenizeStep
    \/ DeobTokenizeStep
    \/ TokenizeReturn

SpecTok == TokInit /\ [][TokNext]_vars

\* the shared lexer of lua_tokenizer.py on texts with a digit outside ASCII:
\* a digit, a letter, a blank, a dot and SUPERSCRIPT TWO
LexAlphabet == {"1", "x", " ", "."} \cup OtherDigits
LexInputs == SeqsUpTo(LexAlphabet, MaxLexLen)

LexInit ==
    /\ impl = "shared"
    /\ code \in LexInputs
    /\ pos = 0
    /\ tokens = <<>>
    /\ status = "run"
    /\ MinIdle /\ RenIdle /\ PropIdle /\ DeobIdle /\ BlockIdle /\ BeautIdle /\ PassIdle /\ ScopeIdle /\ NumIdle

\* one iteration of `while self.i < len(self.text)` of LuaTokenizer.tokenize;
\* a run is followed for MaxLexTokens tokens
LexStep ==
    /\ Len(tokens) < MaxLexTokens
    /\ SharedTokenizeStep

LexNext ==
    \/ LexStep
    \/ TokenizeReturn

SpecLex == LexInit /\ [][LexNext]_vars

\* C26: every iteration of the main loop of the shared lexer consumes at least
\* one character of the text
C26_EveryIterationConsumes ==
    [][(impl = "shared" /\ status = "run" /\ pos < Len(code)) => pos' > pos]_vars

\* ------------------------------------------------- claims on the tokenizers

\* C1: when tokenize has returned, the values of the returned tokens,
\* concatenated in order, are the input text, for each of the four tokenizers.
C1_ConcatReproducesInput ==
    status = "done" => JoinValues(tokens) = code

\* C2: tokenize of minify.py, beautify.py and deobfuscate.py never raises,
\* whatever the input ends with.
C2_TokenizeNeverRaises ==
    impl \in {"minify", "beautify", "deobfuscate"} => status # "raised"

\* the level of the long bracket that opens at offset `from` of the text, -1 when
\* none opens there
OpenerLevel(text, from) ==
    IF \E n \in 0..Len(text) : StartsAt(text, from, Prefix(n))
    THEN CHOOSE n \in 0..Len(text) : StartsAt(text, from, Prefix(n))
    ELSE -1

\* the text of the long-bracket span whose opener of level n starts at offset
\* `from`: up to and including the first closer of level n after the opener,
\* the rest of the text when there is none
LongSpan(text, from, n) ==
    LET closers == {e \in (from + n + 2)..Len(text) : StartsAt(text, e, Suffix(n))}
    IN  IF closers = {} THEN text
        ELSE LET e == CHOOSE x \in closers : \A y \in closers : x <= y
             IN  Slice(text, 0, e + n + 2)

\* C9: in every tokenizer a text that begins with a long-string opener of level
\* n yields as first token one STRING that ends at the first closer of the same
\* level (at end of input when there is none), and a text that begins with `--`
\* and such an opener yields one COMMENT with that extent.
C9_LongBracketLevel ==
    Len(tokens) >= 1 =>
        /\ OpenerLevel(code, 0) >= 0 =>
               tokens[1] = [type |-> "STRING",
                            value |-> LongSpan(code, 0, OpenerLevel(code, 0))]
        /\ (StartsAt(code, 0, <<"-", "-">>) /\ OpenerLevel(code, 2) >= 0) =>
               tokens[1] = [type |-> "COMMENT",
                            value |-> LongSpan(code, 2, OpenerLevel(code, 2))]

\* ---------------------------------------------- state of the calls of minify

\* the pieces of Lua text the inputs of minify are put together from
MinFragments ==
    { <<"p","r","i","n","t">>, <<"(","1",")">>, <<"\"","a"," ","-"," ","b","\"">>,
      <<"l","o","c","a","l"," ","x">>, <<" ","="," ">>, <<";">>, <<"a","["," ">>,
      <<"[","[","s","]","]">>, <<" ","]">>, <<"-","-","c","\n">>, <<".",".">>,
      <<"0",".","5","0">>, <<" ","a","n","d"," ">>, <<"y">>, <<"\n">>, <<" ","-">> }

\* the texts made of at most MaxFragments pieces
MinInputs == {Flatten(fs) : fs \in SeqsUpTo(MinFragments, MaxFragments)}

MinInit ==
    /\ source \in MinInputs
    /\ rename_vars \in BOOLEAN
    /\ aggressive \in BOOLEAN
    /\ mtokens = <<>>
    /\ minified = <<>>
    /\ mpc = "tokenize"
    /\ TokIdle /\ RenIdle /\ PropIdle /\ DeobIdle /\ BlockIdle /\ BeautIdle /\ PassIdle /\ ScopeIdle /\ NumIdle

\* tokens = tokenizer.tokenize(); the comments are removed
MinifyTokenize ==
    /\ mpc = "tokenize"
    /\ LET r == Tokenize("minify", source)
       IN  IF r.raised
           THEN mpc' = "raised" /\ UNCHANGED mtokens
           ELSE mpc' = "optimize" /\ mtokens' = DropType(r.tokens, "COMMENT")
    /\ UNCHANGED <<source, rename_vars, aggressive, minified, notMin>>

\* if aggressive: optimize_numbers, optimize_strings, remove_unnecessary_semicolons
MinifyOptimize ==
    /\ mpc = "optimize"
    /\ mtokens' = IF aggressive
                  THEN remove_unnecessary_semicolons(
                           optimize_strings(optimize_numbers(mtokens)))
                  ELSE mtokens
    /\ mpc' = "rename"
    /\ UNCHANGED <<source, rename_vars, aggressive, minified, notMin>>

\* if rename_vars: tokens = VariableRenamer.rename(tokens)
MinifyRename ==
    /\ mpc = "rename"
    /\ mtokens' = IF rename_vars THEN rename(mtokens) ELSE mtokens
    /\ mpc' = "join"
    /\ UNCHANGED <<source, rename_vars, aggressive, minified, notMin>>

\* the loop over the tokens and minified = ''.join(result)
MinifyJoin ==
    /\ mpc = "join"
    /\ minified' = Reconstruct(mtokens)
    /\ mpc' = "cleanup"
    /\ UNCHANGED <<source, rename_vars, aggressive, mtokens, notMin>>

\* the final clean-up when aggressive, and return minified.strip()
MinifyReturn ==
    /\ mpc = "cleanup"
    /\ minified' = Strip(IF aggressive THEN FinalCleanup(minified) ELSE minified)
    /\ mpc' = "done"
    /\ UNCHANGED <<source, rename_vars, aggressive, mtokens, notMin>>

MinNext ==
    \/ MinifyTokenize
    \/ MinifyOptimize
    \/ MinifyRename
    \/ MinifyJoin
    \/ MinifyReturn

SpecMin == MinInit /\ [][MinNext]_vars

\* ----------------------------------------------------- claims on the minifier

\* the tokens that are neither whitespace nor comments
Significant(toks) == SelectSeq(toks, LAMBDA t : t.type \notin {"WHITESPACE", "COMMENT"})

\* C3: when minify has returned, the output, tokenized again without raising,
\* has the same (kind, value) pairs outside whitespace and comments as the
\* input, identifiers renamed as rename renames them.
C3_TokensPreserved ==
    mpc = "done" =>
        LET inp == Tokenize("minify", source)
            out == Tokenize("minify", minified)
        IN  out.raised \/
            Significant(out.tokens) =
                Significant(IF rename_vars THEN rename(inp.tokens) ELSE inp.tokens)

\* C12: the text minify returns has no two adjacent `-` outside a string
\* literal, that is, read again by the tokenizer it has no comment.
C12_NoAdjacentDashes ==
    mpc = "done" =>
        LET out == Tokenize("minify", minified)
        IN  out.raised \/ \A k \in 1..Len(out.tokens) : out.tokens[k].type # "COMMENT"

\* ---------------------------------------------- state of the calls of rename

\* the name of the k-th declared local of the long program: L000, L001, ...
LocalName(k) ==
    LET d == <<"0", "1", "2", "3", "4", "5", "6", "7", "8", "9">>
    IN  <<"L", d[((k \div 100) % 10) + 1], d[((k \div 10) % 10) + 1], d[(k % 10) + 1]>>

\* the tokens that minify.py's tokenizer gives for the lines `local <name>` of
\* the names of a sequence, no newline after the last line
DeclProgram(names) ==
    [j \in 1..(4 * Len(names) - 1) |->
        CASE j % 4 = 1 -> [type |-> "KEYWORD", value |-> <<"l","o","c","a","l">>]
          [] j % 4 = 2 -> [type |-> "WHITESPACE", value |-> <<" ">>]
          [] j % 4 = 3 -> [type |-> "IDENTIFIER", value |-> names[(j + 1) \div 4]]
          [] OTHER    -> [type |-> "WHITESPACE", value |-> <<"\n">>]]

\* the names the short programs declare, two of them on ROBLOX_GLOBALS
NamePool ==
    << <<"b">>, <<"a">>, <<"g","a","m","e">>, <<"_","x">>, <<"A">>,
       <<"a","1">>, <<"p","r","i","n","t">> >>

\* `local HelloWorld = 1\nprint(HelloWorld)`
HelloWorldSource ==
    <<"l","o","c","a","l"," ","H","e","l","l","o","W","o","r","l","d"," ","="," ","1","\n",
      "p","r","i","n","t","(","H","e","l","l","o","W","o","r","l","d",")">>

\* `local a = 1\nprint(a)`
HelloWorldRenamed ==
    <<"l","o","c","a","l"," ","a"," ","="," ","1","\n","p","r","i","n","t","(","a",")">>

\* `local x = a\nf(x, a)`: a local, and a name `a` that is not declared
CaptureSource ==
    <<"l","o","c","a","l"," ","x"," ","="," ","a","\n","f","(","x",","," ","a",")">>

\* other programs: a declaration list, nested scopes, an unmatched `end`, and
\* no declaration at all
RenSources ==
    { <<"l","o","c","a","l"," ","a",","," ","g","a","m","e"," ","="," ","b">>,
      <<"d","o"," ","l","o","c","a","l"," ","x"," ","e","n","d"," ","x","(",")">>,
      <<"l","o","c","a","l"," ","b",";","l","o","c","a","l"," ","a",";","a","(","b",")">>,
      <<"e","n","d"," ","l","o","c","a","l"," ","i","o">>,
      <<"p","r","i","n","t","(",")">>,
      HelloWorldSource, CaptureSource }

RenInputs ==
    {DeclProgram(SelectSeq(NamePool, LAMBDA n : n \in S)) :
        S \in SUBSET {NamePool[k] : k \in 1..Len(NamePool)}}
        \cup {DeclProgram([k \in 1..MaxLocals |-> LocalName(k - 1)])}
        \cup {Tokenize("minify", src).tokens : src \in RenSources}

RenInit ==
    /\ rtokens \in RenInputs
    /\ local_vars = {}
    /\ var_map = <<>>
    /\ result = <<>>
    /\ rpc = "analyze"
    /\ TokIdle /\ MinIdle /\ PropIdle /\ DeobIdle /\ BlockIdle /\ BeautIdle /\ PassIdle /\ ScopeIdle /\ NumIdle

\* local_vars = analyze_scope(tokens); `if not local_vars: return tokens`
RenameAnalyze ==
    /\ rpc = "analyze"
    /\ local_vars' = analyze_scope(rtokens)
    /\ IF analyze_scope(rtokens) = {}
       THEN result' = rtokens /\ rpc' = "done"
       ELSE rpc' = "map" /\ UNCHANGED result
    /\ UNCHANGED <<rtokens, var_map, notRen>>

\* the loop over sorted(local_vars), the loop "Apply renaming", `return result`
RenameApply ==
    /\ rpc = "map"
    /\ var_map' = VarMap(local_vars)
    /\ result' = ApplyRenaming(rtokens, VarMap(local_vars))
    /\ rpc' = "done"
    /\ UNCHANGED <<rtokens, local_vars, notRen>>

RenNext ==
    \/ RenameAnalyze
    \/ RenameApply

SpecRename == RenInit /\ [][RenNext]_vars

\* ------------------------------------------------------ claims on the renamer

\* C10: when rename has returned, its map gives different names different new
\* names, renames no name of ROBLOX_GLOBALS, and gives no new name that is a
\* keyword or a name of ROBLOX_GLOBALS.
C10_RenameMapSafe ==
    rpc = "done" =>
        /\ Cardinality({var_map[v] : v \in DOMAIN var_map}) = Cardinality(DOMAIN var_map)
        /\ DOMAIN var_map \cap ROBLOX_GLOBALS = {}
        /\ \A v \in DOMAIN var_map : var_map[v] \notin (KEYWORDS \cup ROBLOX_GLOBALS)

\* C29: when rename has returned, no new name of the map is the value of an
\* identifier token of the input that the map does not rename, so two
\* identifier tokens of different names do not get the same name.
C29_NoCapture ==
    rpc = "done" =>
        \A k \in 1..Len(rtokens) :
            (rtokens[k].type = "IDENTIFIER" /\ rtokens[k].value \notin DOMAIN var_map)
                => \A v \in DOMAIN var_map : var_map[v] # rtokens[k].value

\* C11: when rename has returned with a map, the names of the map are the
\* declared locals, the k-th of them in sorted order has the k-th name of
\* generate_short_names whatever the order of the declarations, every
\* identifier token with a name of the map has the new name and every other
\* token is as it was; `local HelloWorld = 1\nprint(HelloWorld)` gives the
\* tokens of `local a = 1\nprint(a)`.
C11_SortedAssignment ==
    (rpc = "done" /\ local_vars # {}) =>
        /\ DOMAIN var_map = local_vars
        /\ \A v \in local_vars :
               var_map[v] =
                   generate_short_names[Cardinality({w \in local_vars : StrLess(w, v)}) + 1]
        /\ Len(result) = Len(rtokens)
        /\ \A k \in 1..Len(rtokens) :
               IF rtokens[k].type = "IDENTIFIER" /\ rtokens[k].value \in local_vars
               THEN result[k] = [type |-> "IDENTIFIER", value |-> var_map[rtokens[k].value]]
               ELSE result[k] = rtokens[k]
        /\ rtokens = Tokenize("minify", HelloWorldSource).tokens
               => result = Tokenize("minify", HelloWorldRenamed).tokens

\* C11: rename has returned for a program that declares `b` before `a`, and
\* `a` has the first short name, `b` the second
C11_Witness ==
    /\ rpc = "done"
    /\ local_vars = {<<"a">>, <<"b">>}
    /\ \E i, j \in 1..Len(rtokens) :
           /\ i < j
           /\ rtokens[i].value = <<"b">> /\ rtokens[j].value = <<"a">>
           /\ \A k \in 1..(i - 1) : rtokens[k].type # "IDENTIFIER"
    /\ var_map[<<"a">>] = <<"a">> /\ var_map[<<"b">>] = <<"b">>

\* -------------------------------------------- state of the calls of propagate

\* the lines the inputs of propagate are put together from
PropFragments ==
    { <<"l","o","c","a","l"," ","x"," ","="," ","5","\n">>,
      <<"l","o","c","a","l"," ","y","=","\"","s","\"","\n">>,
      <<"r","e","t","u","r","n"," ","x","\n">>,
      <<"x"," ","="," ","6","\n">>,
      <<"y","=","x","\n">>,
      <<"p","r","i","n","t","(","x",")","\n">>,
      <<"f","(","y",","," ","x"," ",")","\n">>,
      <<"x"," ","=","="," ","y","\n">> }

\* the token lists of the texts made of at most MaxLines lines
PropInputs ==
    {Tokenize("deobfuscate", Flatten(ls)).tokens : ls \in SeqsUpTo(PropFragments, MaxLines)}

PropInit ==
    /\ ptokens \in PropInputs
    /\ pi = 0
    /\ constants = EmptyDict
    /\ assignments = EmptyDict
    /\ presult = <<>>
    /\ ppc = "loop"
    /\ TokIdle /\ MinIdle /\ RenIdle /\ DeobIdle /\ BlockIdle /\ BeautIdle /\ PassIdle /\ ScopeIdle /\ NumIdle

\* one iteration of `while i < len(tokens)` of propagate
PropagateStep ==
    /\ ppc = "loop"
    /\ pi < Len(ptokens)
    /\ LET s == PropagateToken(ptokens, [i |-> pi, constants |-> constants,
                                         assignments |-> assignments,
                                         result |-> presult])
       IN  /\ pi' = s.i
           /\ constants' = s.constants
           /\ assignments' = s.assignments
           /\ presult' = s.result
    /\ UNCHANGED <<ptokens, ppc, notProp>>

\* `return result` when the loop condition fails
PropagateReturn ==
    /\ ppc = "loop"
    /\ pi >= Len(ptokens)
    /\ ppc' = "done"
    /\ UNCHANGED <<ptokens, pi, constants, assignments, presult, notProp>>

PropNext ==
    \/ PropagateStep
    \/ PropagateReturn

SpecProp == PropInit /\ [][PropNext]_vars

\* ------------------------------------------- claims on constant propagation

\* the token at position r of the input (counted from 1) is an identifier
\* directly followed, ignoring whitespace, by `=`
AssignedAt(toks, r) == toks[r].type = "IDENTIFIER" /\ is_assignment(toks, r - 1)

\* the positions d of a `local` whose declaration `local NAME = LITERAL` names
\* the identifier `name`
DeclarationsOf(toks, name) ==
    {d \in 1..Len(toks) : /\ Declaration(toks, d - 1).found
                          /\ toks[Declaration(toks, d - 1).name + 1].value = name}

\* the positions of the assignments `NAME = ...` to `name` that are no part of
\* a declaration `local NAME = LITERAL`
ReassignmentsOf(toks, name) ==
    {a \in 1..Len(toks) :
        /\ AssignedAt(toks, a) /\ toks[a].value = name
        /\ \A d \in DeclarationsOf(toks, name) : Declaration(toks, d - 1).name + 1 # a}

\* the positions whose token propagate has replaced so far
ReplacedPositions == {r \in 1..Len(presult) : presult[r] # ptokens[r]}

\* C4: at every moment of propagate, a token that has been replaced is not
\* directly followed (ignoring whitespace) by `=`, and every assignment to its
\* name that lies before it is followed, before it, by a later declaration
\* `local NAME = LITERAL` of the name: no use is replaced by a literal that was
\* registered before an assignment that has been passed.
C4_NoStaleSubstitution ==
    \A r \in ReplacedPositions :
        /\ ~AssignedAt(ptokens, r)
        /\ \A a \in ReassignmentsOf(ptokens, ptokens[r].value) :
               a < r => \E d \in DeclarationsOf(ptokens, ptokens[r].value) : a < d /\ d < r

\* C4 witness: propagate has returned for a program that declares a name with
\* a literal, assigns to it afterwards and uses it after the assignment, and
\* the use stands in the output as it stood in the input.
C4_Witness ==
    /\ ppc = "done"
    /\ \E r \in 1..Len(ptokens) :
           /\ ptokens[r].type = "IDENTIFIER" /\ ~AssignedAt(ptokens, r)
           /\ \E d \in DeclarationsOf(ptokens, ptokens[r].value) :
              \E a \in ReassignmentsOf(ptokens, ptokens[r].value) : d < a /\ a < r
           /\ presult[r] = ptokens[r]

\* C5: when propagate has returned, every use of a name that is not directly
\* followed by `=`, lies after a declaration `local NAME = LITERAL` of the name
\* and has no assignment to the name and no other declaration of it between
\* that declaration and itself, is replaced by the literal of the declaration.
C5_UsesReplaced ==
    ppc = "done" =>
        \A r \in 1..Len(ptokens) :
        \A d \in DeclarationsOf(ptokens, ptokens[r].value) :
            ( /\ ptokens[r].type = "IDENTIFIER" /\ ~AssignedAt(ptokens, r)
              /\ Declaration(ptokens, d - 1).literal + 1 < r
              /\ \A a \in ReassignmentsOf(ptokens, ptokens[r].value) : ~(d < a /\ a < r)
              /\ \A e \in DeclarationsOf(ptokens, ptokens[r].value) : ~(d < e /\ e < r) )
            => presult[r].value = ptokens[Declaration(ptokens, d - 1).literal + 1].value


\* ------------------------------ state of the calls of deobfuscate_internal

\* the text of a call of `fn` on the literal repr(payload)
LoadCall(fn, payload) == fn \o <<"(">> \o repr(payload) \o <<")">>

RECURSIVE Nested(_, _, _)
\* the body inside k nested calls of fn, each the payload of the one around it
Nested(k, fn, body) ==
    IF k = 0 THEN body
    ELSE CHOOSE call \in {LoadCall(fn, inner) : inner \in {Nested(k - 1, fn, body)}} : TRUE

\* the innermost texts: a name, a statement that ends in a number, one that
\* ends in a name, a declaration with a use, two calls side by side, a call on
\* a literal that is no Python literal, and a call on a concatenation
DeobBodies ==
    { <<"x">>,
      <<"r","e","t","u","r","n"," ","1">>,
      <<"r","e","t","u","r","n"," ","x">>,
      <<"l","o","c","a","l"," ","x"," ","="," ","5","\n","p","r","i","n","t","(","x",")">>,
      <<"l","o","a","d","(","'","a","'",")",";","l","o","a","d","(","'","1","'",")">>,
      <<"l","o","a","d","(","\"","\\","N","\"",")">>,
      <<"l","o","a","d","(","\"","a","\"",".",".","\"","b","\"",")">> }

LoadNames == {<<"l","o","a","d">>, <<"l","o","a","d","s","t","r","i","n","g">>}

DeobInputs ==
    {Nested(k, fn, body) : k \in 0..MaxNest, fn \in LoadNames, body \in DeobBodies}

\* no match of LoadstringInliner.PATTERN
NoMatch == [found |-> FALSE, p |-> 0, e |-> 0, ok |-> FALSE, payload |-> <<>>]

\* what Phases 5 to 9 have not yet given
NotFolded == [raised |-> FALSE, text |-> <<>>]

\* the locals of a call of deobfuscate_internal that starts: the text, the
\* budget, the phase that runs next; for the scan of Phase 4 the offset it has
\* reached, the text it has put out and the match it is at; the outcome of
\* Phases 5 to 9
Call(text, max_depth) ==
    [code |-> text, max_depth |-> max_depth, pc |-> "decode", scan |-> 0, out |-> <<>>,
     match |-> NoMatch, folded |-> NotFolded]

DeobInit ==
    /\ dcode \in DeobInputs
    /\ budget \in 0..MaxBudget
    /\ stack = <<Call(dcode, budget)>>
    /\ returned = [raised |-> FALSE, text |-> <<>>]
    /\ dpc = "run"
    /\ TokIdle /\ MinIdle /\ RenIdle /\ PropIdle /\ BlockIdle /\ BeautIdle /\ PassIdle /\ ScopeIdle /\ NumIdle

\* the innermost call in progress
Top == stack[Len(stack)]

\* the stack with the innermost call changed to f
WithTop(f) == [stack EXCEPT ![Len(stack)] = f]

\* the first match of LoadstringInliner.PATTERN at or after `from` and the
\* payload replace_loadstring reads from it: [found, p, e, ok, payload], the
\* span of the match, ok FALSE when literal_eval or decode_escapes raises
NextLoad(text, from) ==
    LET At(p, m) ==
            Only({[found |-> TRUE, p |-> p, e |-> m.e, ok |-> payload.ok,
                   payload |-> payload.text] :
                     payload \in {Payload(Slice(text, m.s0, m.s1))}})
        First(starts) ==
            IF starts = {} THEN NoMatch
            ELSE Only({At(p, LoadMatch(text, p)) :
                          p \in {CHOOSE p \in starts : \A q \in starts : p <= q}})
    IN  Only({First(starts) :
                 starts \in {{p \in from..(Len(text) - 1) : LoadMatch(text, p).e > p}}})

\* Phases 1 to 3 of the innermost call
DeobDecode ==
    /\ dpc = "run" /\ Top.pc = "decode"
    /\ stack' = WithTop([Top EXCEPT !.code = DecodePhases(Top.code), !.pc = "inline"])
    /\ UNCHANGED <<dcode, budget, returned, dpc, notDeob>>

\* Phase 4 with `max_depth <= 0`: inline returns the text as it is
DeobInlineNone ==
    /\ dpc = "run" /\ Top.pc = "inline"
    /\ Top.max_depth <= 0
    /\ stack' = WithTop([Top EXCEPT !.pc = "fold"])
    /\ UNCHANGED <<dcode, budget, returned, dpc, notDeob>>

\* Phase 4, PATTERN.sub looks for the next match
DeobInlineSearch ==
    /\ dpc = "run" /\ Top.pc = "inline"
    /\ Top.max_depth > 0
    /\ stack' = WithTop([Top EXCEPT !.match = NextLoad(Top.code, Top.scan),
                                    !.pc = "match"])
    /\ UNCHANGED <<dcode, budget, returned, dpc, notDeob>>

\* Phase 4, replace_loadstring on the match: deobfuscate_internal is called on
\* the payload with the budget max_depth - 1
DeobInlineCall ==
    /\ dpc = "run" /\ Top.pc = "match"
    /\ Top.match.found /\ Top.match.ok
    /\ stack' = Append(WithTop([Top EXCEPT
                                   !.out = @ \o Slice(Top.code, Top.scan, Top.match.p),
                                   !.scan = Top.match.p,
                                   !.pc = "called"]),
                       Call(Top.match.payload, PayloadBudget(Top.max_depth)))
    /\ UNCHANGED <<dcode, budget, returned, dpc, notDeob>>

\* Phase 4, replace_loadstring on the match when literal_eval or
\* decode_escapes raises: the match stays as it is
DeobInlineKeep ==
    /\ dpc = "run" /\ Top.pc = "match"
    /\ Top.match.found /\ ~Top.match.ok
    /\ stack' = WithTop([Top EXCEPT
                            !.out = @ \o Slice(Top.code, Top.scan, Top.match.e),
                            !.scan = Top.match.e,
                            !.pc = "inline"])
    /\ UNCHANGED <<dcode, budget, returned, dpc, notDeob>>

\* Phase 4 when no match is left: PATTERN.sub returns the text put together
DeobInlineEnd ==
    /\ dpc = "run" /\ Top.pc = "match"
    /\ ~Top.match.found
    /\ stack' = WithTop([Top EXCEPT
                            !.code = Top.out \o Slice(Top.code, Top.scan, Len(Top.code)),
                            !.pc = "fold"])
    /\ UNCHANGED <<dcode, budget, returned, dpc, notDeob>>

\* Phases 5 to 9 of the innermost call and `code.strip()`
DeobFold ==
    /\ dpc = "run" /\ Top.pc = "fold"
    /\ stack' = WithTop([Top EXCEPT !.folded = FoldPhases(Top.code), !.pc = "end"])
    /\ UNCHANGED <<dcode, budget, returned, dpc, notDeob>>

\* the stack after the innermost call has ended and replace_loadstring of its
\* caller has put `text` in the place of the match
Resume(text) ==
    LET caller == stack[Len(stack) - 1]
    IN  [SubSeq(stack, 1, Len(stack) - 1) EXCEPT
            ![Len(stack) - 1] =
                [caller EXCEPT !.out = @ \o text, !.scan = caller.match.e,
                               !.pc = "inline"]]

\* `return code.strip()` of the innermost call: to the caller of
\* deobfuscate_internal, or to replace_loadstring, which wraps the text
DeobReturn ==
    /\ dpc = "run" /\ Top.pc = "end"
    /\ ~Top.folded.raised
    /\ IF Len(stack) = 1
       THEN stack' = <<>> /\ returned' = Top.folded /\ dpc' = "done"
       ELSE stack' = Resume(WrapFunction(Top.folded.text)) /\ UNCHANGED <<returned, dpc>>
    /\ UNCHANGED <<dcode, budget, notDeob>>

\* the tokenizer of Phase 7 has raised in the innermost call: the exception
\* leaves the outermost call, or reaches the `except` of replace_loadstring,
\* which keeps the match
DeobRaise ==
    /\ dpc = "run" /\ Top.pc = "end"
    /\ Top.folded.raised
    /\ IF Len(stack) = 1
       THEN stack' = <<>> /\ returned' = [raised |-> TRUE, text |-> <<>>] /\ dpc' = "raised"
       ELSE LET caller == stack[Len(stack) - 1]
            IN  /\ stack' = Resume(Slice(caller.code, caller.match.p, caller.match.e))
                /\ UNCHANGED <<returned, dpc>>
    /\ UNCHANGED <<dcode, budget, notDeob>>

DeobNext ==
    \/ DeobDecode
    \/ DeobInlineNone
    \/ DeobInlineSearch
    \/ DeobInlineCall
    \/ DeobInlineKeep
    \/ DeobInlineEnd
    \/ DeobFold
    \/ DeobReturn
    \/ DeobRaise

SpecDeob == DeobInit /\ [][DeobNext]_vars

\* C6: deobfuscate_internal never raises: for every input text and every
\* budget the outermost call returns a text, no exception leaves it
C6_NeverRaises == dpc # "raised"

\* C7: with a budget of at least 1, a `load` or `loadstring` call whose only
\* argument is the literal "return 1" is returned as the anonymous function
\* that wraps `return 1`
C7_LoadInlined ==
    (/\ dpc = "done" /\ budget >= 1
     /\ \E fn \in LoadNames : dcode = Nested(1, fn, <<"r","e","t","u","r","n"," ","1">>))
        => returned.text = WrapFunction(<<"r","e","t","u","r","n"," ","1">>)

\* C8: every call of deobfuscate_internal made for a payload has a budget one
\* less than its caller, a call with a budget of 0 or less neither searches
\* for load calls nor recurses, and the nesting of the recursive calls never
\* exceeds the initial budget
C8_NestingBounded ==
    dpc = "run" =>
        /\ \A i \in 1..Len(stack) : stack[i].max_depth = budget - (i - 1)
        /\ \A i \in 1..Len(stack) :
               stack[i].max_depth <= 0 =>
                   /\ stack[i].pc \notin {"match", "called"}
                   /\ stack[i].scan = 0 /\ stack[i].out = <<>>
        /\ Len(stack) - 1 <= budget

\* C8: the innermost call runs with the budget used up after MaxBudget
\* nested payloads, and its text still holds a load call on a literal
C8_Witness ==
    /\ dpc = "run" /\ budget = MaxBudget /\ Len(stack) = MaxBudget + 1
    /\ Top.max_depth = 0 /\ Top.pc = "fold"
    /\ \E p \in 0..(Len(Top.code) - 1) : LoadMatch(Top.code, p).e > p

\* ------------------------------------- lua_block_engine.py: BlockEngine.process

\* tok.type.lower()
Lower(type) ==
    CASE type = "KEYWORD" -> "keyword"
      [] type = "IDENTIFIER" -> "identifier"
      [] type = "NUMBER" -> "number"
      [] type = "STRING" -> "string"
      [] type = "COMMENT" -> "comment"
      [] type = "OPERATOR" -> "operator"
      [] type = "PUNCT" -> "punct"
      [] type = "WHITESPACE" -> "whitespace"
      [] type = "UNKNOWN" -> "unknown"

\* a depth that goes below zero
DedentUnguarded(d) == d - 1

\* max(0, self.indent - 1)
Dedent(d) == Max(0, d - 1)

\* no keyword opens a block
BlockOpenersNone == {}

\* `kw in ("function", "do", "then")`
BlockOpeners ==
    {<<"f","u","n","c","t","i","o","n">>, <<"d","o">>, <<"t","h","e","n">>}

\* `kw in ("else", "elseif")`
BlockMiddles == {<<"e","l","s","e">>, <<"e","l","s","e","i","f">>}

\* `kw in ("end", "until")`
BlockClosers == {<<"e","n","d">>, <<"u","n","t","i","l">>}

\* the tokens the inputs of BlockEngine are made of: the keywords of the three
\* groups, another keyword, a comment, a string, a name, an operator and a
\* character the tokenizer does not know
\* the keywords of the inputs: the seven the engine knows, and `if`
BlockKeywords ==
    { <<"f","u","n","c","t","i","o","n">>, <<"d","o">>, <<"t","h","e","n">>,
      <<"e","l","s","e">>, <<"e","l","s","e","i","f">>, <<"e","n","d">>,
      <<"u","n","t","i","l">>, <<"i","f">> }

BlockAlphabet ==
    {[type |-> "KEYWORD", value |-> kw] : kw \in BlockKeywords}
        \cup {[type |-> "COMMENT", value |-> <<"-","-","c">>],
              [type |-> "STRING", value |-> <<"'","s","'">>],
              [type |-> "IDENTIFIER", value |-> <<"x">>],
              [type |-> "OPERATOR", value |-> <<"=">>],
              [type |-> "UNKNOWN", value |-> <<"@">>]}

\* a keyword token and the statement `x`, as token sequences
Kw(word) == <<[type |-> "KEYWORD", value |-> word]>>
Stmt == <<[type |-> "IDENTIFIER", value |-> <<"x">>]>>

\* the blocks of Lua with a body of a set in one place and the statement in
\* the others: function, if with and without else and elseif, while, for, do,
\* repeat
BlocksOver(bodies) ==
    LET If == Kw(<<"i","f">>) \o Stmt \o Kw(<<"t","h","e","n">>)
        Else == Kw(<<"e","l","s","e">>)
        Elseif == Kw(<<"e","l","s","e","i","f">>) \o Stmt \o Kw(<<"t","h","e","n">>)
        End == Kw(<<"e","n","d">>)
        Do == Kw(<<"d","o">>)
    IN  UNION {
          { Kw(<<"f","u","n","c","t","i","o","n">>) \o b \o End,
            If \o b \o End,
            If \o b \o Else \o Stmt \o End,
            If \o Stmt \o Else \o b \o End,
            If \o b \o Elseif \o Stmt \o Else \o Stmt \o End,
            If \o Stmt \o Elseif \o b \o Else \o Stmt \o End,
            If \o Stmt \o Elseif \o Stmt \o Else \o b \o End,
            Kw(<<"w","h","i","l","e">>) \o Stmt \o Do \o b \o End,
            Kw(<<"f","o","r">>) \o Stmt \o Do \o b \o End,
            Do \o b \o End,
            Kw(<<"r","e","p","e","a","t">>) \o b \o Kw(<<"u","n","t","i","l">>) \o Stmt } :
          b \in bodies }

\* blocks nested up to MaxBlockNest deep, the innermost body a statement
RECURSIVE NestedBlocks(_)
NestedBlocks(n) ==
    IF n = 0 THEN {} ELSE BlocksOver({Stmt} \cup NestedBlocks(n - 1))

\* properly nested and closed programs: a statement, a block, a statement
NestedInputs == {Stmt \o b \o Stmt : b \in NestedBlocks(MaxBlockNest)}

BlockInputs == SeqsUpTo(BlockAlphabet, MaxTokens) \cup NestedInputs

BlockInit ==
    /\ etokens \in BlockInputs
    /\ index = 0
    /\ indent = 0
    /\ mode = "normal"
    /\ output = <<>>
    /\ epc = "loop"
    /\ TokIdle /\ MinIdle /\ RenIdle /\ PropIdle /\ DeobIdle /\ BeautIdle /\ PassIdle /\ ScopeIdle /\ NumIdle

\* self.current()
Current == etokens[index + 1]

\* a mode that follows the last token only
ModeOfToken(tok) == IF tok.type = "UNKNOWN" THEN "safe" ELSE "normal"

\* the mode after `if tok.type == "UNKNOWN": self.switch_to_safe(...)`
ModeAfter(tok) == IF tok.type = "UNKNOWN" THEN "safe" ELSE mode

\* one iteration of the loop for a comment or a string
BlockPreserved ==
    /\ epc = "loop" /\ index < Len(etokens)
    /\ Current.type \in {"COMMENT", "STRING"}
    /\ output' = Append(output, <<Lower(Current.type), Current.value, indent>>)
    /\ index' = index + 1
    /\ UNCHANGED <<etokens, indent, mode, epc, notBlock>>

\* one iteration of the loop for `function`, `do`, `then`
BlockOpen ==
    /\ epc = "loop" /\ index < Len(etokens)
    /\ Current.type = "KEYWORD" /\ Current.value \in BlockOpeners
    /\ output' = Append(output, <<"keyword", Current.value, indent>>)
    /\ indent' = indent + 1
    /\ index' = index + 1
    /\ UNCHANGED <<etokens, mode, epc, notBlock>>

\* one iteration of the loop for `else`, `elseif`
BlockMiddle ==
    /\ epc = "loop" /\ index < Len(etokens)
    /\ Current.type = "KEYWORD" /\ Current.value \notin BlockOpeners
    /\ Current.value \in BlockMiddles
    /\ output' = Append(output, <<"keyword", Current.value, Dedent(indent)>>)
    /\ indent' = Dedent(indent) + 1
    /\ index' = index + 1
    /\ UNCHANGED <<etokens, mode, epc, notBlock>>

\* one iteration of the loop for `end`, `until`
BlockClose ==
    /\ epc = "loop" /\ index < Len(etokens)
    /\ Current.type = "KEYWORD" /\ Current.value \notin BlockOpeners
    /\ Current.value \notin BlockMiddles /\ Current.value \in BlockClosers
    /\ output' = Append(output, <<"keyword", Current.value, Dedent(indent)>>)
    /\ indent' = Dedent(indent)
    /\ index' = index + 1
    /\ UNCHANGED <<etokens, mode, epc, notBlock>>

\* one iteration of the loop for another keyword
BlockKeyword ==
    /\ epc = "loop" /\ index < Len(etokens)
    /\ Current.type = "KEYWORD" /\ Current.value \notin BlockOpeners
    /\ Current.value \notin BlockMiddles /\ Current.value \notin BlockClosers
    /\ output' = Append(output, <<"keyword", Current.value, indent>>)
    /\ index' = index + 1
    /\ UNCHANGED <<etokens, indent, mode, epc, notBlock>>

\* one iteration of the loop for an identifier, a number, an operator, a
\* punctuation or an unknown token; an unknown token switches to safe mode
BlockPlain ==
    /\ epc = "loop" /\ index < Len(etokens)
    /\ Current.type \notin {"COMMENT", "STRING", "KEYWORD"}
    /\ mode' = ModeAfter(Current)
    /\ output' = Append(output, <<Lower(Current.type), Current.value, indent>>)
    /\ index' = index + 1
    /\ UNCHANGED <<etokens, indent, epc, notBlock>>

\* `return self.output`
BlockReturn ==
    /\ epc = "loop" /\ index >= Len(etokens)
    /\ epc' = "done"
    /\ UNCHANGED <<etokens, index, indent, mode, output, notBlock>>

BlockNext ==
    \/ BlockPreserved
    \/ BlockOpen
    \/ BlockMiddle
    \/ BlockClose
    \/ BlockKeyword
    \/ BlockPlain
    \/ BlockReturn

SpecBlock == BlockInit /\ [][BlockNext]_vars

\* ------------------------------------------------- claims on the block engine

\* what the loop has recorded for the token it has just passed
LastRecorded == output'[Len(output')]

\* C30: when process has returned for a properly nested and closed program
\* `x <block> x`, the depth is 0 and the statement after the block is recorded
\* at the depth of the statement before it.
C30_DepthRestored ==
    (epc = "done" /\ etokens \in NestedInputs) =>
        /\ indent = 0
        /\ output[Len(output)][3] = output[1][3]

\* C14: an iteration of the loop of process on a token, with d the depth
\* before it: `function`, `do`, `then` are recorded at d and leave the depth at
\* d + 1; `end`, `until` are recorded at max(0, d - 1) and leave the depth
\* there; `else`, `elseif` are recorded at max(0, d - 1) and leave the depth at
\* max(0, d - 1) + 1; every other token is recorded at d and leaves the depth
\* as it is.
C14_DepthRules ==
    [][(epc = "loop" /\ index' = index + 1) =>
           LET tok == etokens[index + 1]
               d == indent
               low == IF d - 1 > 0 THEN d - 1 ELSE 0
               kw(S) == tok.type = "KEYWORD" /\ tok.value \in S
           IN  /\ Len(output') = Len(output) + 1
               /\ LastRecorded[2] = tok.value
               /\ CASE kw({<<"f","u","n","c","t","i","o","n">>, <<"d","o">>,
                            <<"t","h","e","n">>}) ->
                            LastRecorded[3] = d /\ indent' = d + 1
                     [] kw({<<"e","n","d">>, <<"u","n","t","i","l">>}) ->
                            LastRecorded[3] = low /\ indent' = low
                     [] kw({<<"e","l","s","e">>, <<"e","l","s","e","i","f">>}) ->
                            LastRecorded[3] = low /\ indent' = low + 1
                     [] OTHER ->
                            LastRecorded[3] = d /\ indent' = d]_vars

\* C14: the loop has passed an `else` at depth 0 and then a `then`, and is at
\* an `end` with the depth at 2
C14_Witness ==
    /\ epc = "loop" /\ index = 2 /\ Len(etokens) > 2
    /\ etokens[1].value = <<"e","l","s","e">> /\ output[1][3] = 0
    /\ etokens[2].value = <<"t","h","e","n">> /\ output[2][3] = 1
    /\ etokens[3].value = <<"e","n","d">> /\ indent = 2

\* ------------------------------------------------ beautify.py: LuaBeautifier

\* self.indent * self.level
Indentation(ind, n) == Flatten([k \in 1..n |-> ind])

\* `not self.output or self.output[-1] == '\n'`
AtLineStart(out) == out = <<>> \/ out[Len(out)] = <<"\n">>

\* the output with the indentation added when it is at the start of a line
Indented(out, ind, n) ==
    IF AtLineStart(out) THEN Append(out, Indentation(ind, n)) ELSE out

\* `keyword in ('end', 'else', 'elseif', 'until')`
Dedenting ==
    {<<"e","n","d">>, <<"e","l","s","e">>, <<"e","l","s","e","i","f">>,
     <<"u","n","t","i","l">>}

\* the level after "Dedent before certain keywords"
LevelBefore(keyword, n) == IF keyword \in Dedenting THEN Max(0, n - 1) ELSE n

\* the look-ahead of _handle_keyword from token index i (0-based): a `then` or
\* `do` comes before every `end`, `else`, `elseif`
FoundThenOrDo(toks, i) ==
    \E j \in (i + 1)..Len(toks) :
        /\ toks[j].value \in {<<"t","h","e","n">>, <<"d","o">>}
        /\ \A k \in (i + 1)..(j - 1) :
               toks[k].value \notin {<<"e","n","d">>, <<"e","l","s","e">>,
                                     <<"e","l","s","e","i","f">>}

\* the level after "Indent after certain keywords", i the index after the
\* keyword, n the level after the dedent
LevelAfter(keyword, toks, i, n) ==
    IF keyword \in {<<"t","h","e","n">>, <<"d","o">>, <<"r","e","p","e","a","t">>} THEN n
    ELSE IF keyword \in {<<"e","l","s","e">>, <<"e","l","s","e","i","f">>} THEN n + 1
    ELSE IF keyword \in {<<"f","u","n","c","t","i","o","n">>, <<"i","f">>, <<"f","o","r">>,
                         <<"w","h","i","l","e">>}
    THEN IF FoundThenOrDo(toks, i) \/ keyword = <<"f","u","n","c","t","i","o","n">>
         THEN n + 1 ELSE n
    ELSE n

\* "Add space after keyword": the token after the keyword is no newline and
\* no bracket
SpaceAfterKeyword(toks, i) ==
    /\ i < Len(toks)
    /\ toks[i + 1].type # "NEWLINE"
    /\ toks[i + 1].value \notin {<<"(">>, <<")">>, <<"{">>, <<"}">>}

\* the values after which _process_token puts a blank
SpacedOperators ==
    {<<"=">>, <<"=","=">>, <<"~","=">>, <<"<","=">>, <<">","=">>, <<"<">>, <<">">>,
     <<"+">>, <<"-">>, <<"*">>, <<"/">>, <<"%">>, <<"^">>, <<".",".">>,
     <<"a","n","d">>, <<"o","r">>}

\* "Add space after certain tokens" of _process_token: token the token
\* consumed, i the index after it
SpaceAfterToken(token, toks, i) ==
    /\ i < Len(toks)
    /\ toks[i + 1].type \notin {"NEWLINE", "COMMENT"}
    /\ \/ /\ token.type \in {"KEYWORD", "IDENTIFIER"}
          /\ toks[i + 1].type \in {"IDENTIFIER", "KEYWORD", "NUMBER"}
       \/ token.value \in {<<",">>, <<";">>}
       \/ token.value \in SpacedOperators

\* the index after the newline tokens at and after index i (0-based)
AfterNewlines(toks, i) ==
    CHOOSE j \in i..Len(toks) :
        /\ j = Len(toks) \/ toks[j + 1].type # "NEWLINE"
        /\ \A k \in (i + 1)..j : toks[k].type = "NEWLINE"

\* re.sub(r'\n{3,}', '\n\n', ''.join(output)).strip() + '\n'
Finish(out) ==
    PyStrip(SubRuns(Flatten(out), {"\n"}, 3, <<"\n", "\n">>)) \o <<"\n">>

\* ----------------------------------------------- deobfuscate.py: LuaBeautifier

\* "Add spacing" of beautify: tok the token at index i (1-based)
DeobSpaceAfter(toks, i) ==
    /\ i < Len(toks)
    /\ \/ toks[i].value \in {<<",">>, <<";">>}
       \/ /\ toks[i].type \in {"KEYWORD", "IDENTIFIER"}
          /\ toks[i + 1].type \in {"IDENTIFIER", "KEYWORD", "NUMBER"}

\* the keywords after which beautify raises the level
DeobIndenting ==
    {<<"f","u","n","c","t","i","o","n">>, <<"i","f">>, <<"f","o","r">>,
     <<"w","h","i","l","e">>, <<"d","o">>, <<"r","e","p","e","a","t">>,
     <<"t","h","e","n">>, <<"e","l","s","e">>}

\* the keywords after which beautify ends the line
DeobBreaking ==
    {<<"t","h","e","n">>, <<"d","o">>, <<"r","e","p","e","a","t">>, <<"e","l","s","e">>}

\* --------------------------------------------- state of the calls of beautify

\* the pieces the inputs of the beautifiers are put together from
BeautFragments ==
    { <<"i","f"," ","x"," ","t","h","e","n","\n">>,
      <<"y"," ","="," ","1","\n">>,
      <<"e","n","d">>,
      <<"1"," ">>,
      <<" ","=">>,
      <<"-","-","c","\n">>,
      <<"e","l","s","e","\n">>,
      <<"f","u","n","c","t","i","o","n"," ","f","(",")","\n">>,
      <<"w","h","i","l","e"," ","x"," ","d","o"," ","f","(","x",","," ","y",")"," ">>,
      <<"\n">> }

BeautInputs == {Flatten(fs) : fs \in SeqsUpTo(BeautFragments, MaxPieces)}

\* the indent units
IndentUnits == {<<"\t">>, <<" ", " ">>}

BeautInit ==
    /\ bimpl \in {"beautify", "deobfuscate"}
    /\ btext \in BeautInputs
    /\ unit \in IndentUnits
    /\ btokens = <<>>
    /\ bi = 0
    /\ level = 0
    /\ bout = <<>>
    /\ bresult = <<>>
    /\ bpass = 1
    /\ bfirst = <<>>
    /\ bpc = "tokenize"
    /\ TokIdle /\ MinIdle /\ RenIdle /\ PropIdle /\ DeobIdle /\ BlockIdle /\ PassIdle /\ ScopeIdle /\ NumIdle

\* the token types the beautifier of a file drops
Dropped(which) ==
    IF which = "beautify" THEN {"WHITESPACE"} ELSE {"WHITESPACE", "NEWLINE"}

\* beautify: the tokenizer runs and the tokens are filtered; beautify.py sets
\* i, level, output anew, deobfuscate.py keeps the level of the object
BeautifyTokenize ==
    /\ bpc = "tokenize"
    /\ \E r \in {Tokenize(bimpl, btext)} :
           IF r.raised
           THEN bpc' = "raised" /\ UNCHANGED btokens
           ELSE /\ bpc' = "loop"
                /\ btokens' = SelectSeq(r.tokens, LAMBDA t : t.type \notin Dropped(bimpl))
    /\ bi' = 0 /\ bout' = <<>>
    /\ level' = IF bimpl = "beautify" THEN 0 ELSE level
    /\ UNCHANGED <<bimpl, btext, unit, bresult, bpass, bfirst, notBeaut>>

\* the token the loop is at
BeautToken == btokens[bi + 1]

\* beautify.py _process_token at a newline token
BeautifyNewline ==
    /\ bimpl = "beautify" /\ bpc = "loop" /\ bi < Len(btokens)
    /\ BeautToken.type = "NEWLINE"
    /\ bi' = AfterNewlines(btokens, bi)
    /\ bout' = Append(bout, <<"\n">>)
    /\ UNCHANGED <<bimpl, btext, unit, btokens, level, bresult, bpass, bfirst, bpc,
                   notBeaut>>

\* beautify.py _process_token at a comment: _handle_comment
BeautifyComment ==
    /\ bimpl = "beautify" /\ bpc = "loop" /\ bi < Len(btokens)
    /\ BeautToken.type = "COMMENT"
    /\ bi' = bi + 1
    /\ bout' = Append(Indented(bout, unit, level), BeautToken.value)
    /\ UNCHANGED <<bimpl, btext, unit, btokens, level, bresult, bpass, bfirst, bpc,
                   notBeaut>>

\* beautify.py _process_token at a keyword: _handle_keyword
BeautifyKeyword ==
    /\ bimpl = "beautify" /\ bpc = "loop" /\ bi < Len(btokens)
    /\ BeautToken.type = "KEYWORD"
    /\ bi' = bi + 1
    /\ \E n \in {LevelBefore(BeautToken.value, level)} :
           /\ bout' = Append(Indented(bout, unit, n), BeautToken.value)
                          \o (IF SpaceAfterKeyword(btokens, bi + 1) THEN << <<" ">> >>
                              ELSE <<>>)
           /\ level' = LevelAfter(BeautToken.value, btokens, bi + 1, n)
    /\ UNCHANGED <<bimpl, btext, unit, btokens, bresult, bpass, bfirst, bpc, notBeaut>>

\* beautify.py _process_token at another token
BeautifyDefault ==
    /\ bimpl = "beautify" /\ bpc = "loop" /\ bi < Len(btokens)
    /\ BeautToken.type \notin {"NEWLINE", "COMMENT", "KEYWORD"}
    /\ bi' = bi + 1
    /\ bout' = Append(bout, BeautToken.value)
                   \o (IF SpaceAfterToken(BeautToken, btokens, bi + 1) THEN << <<" ">> >>
                       ELSE <<>>)
    /\ UNCHANGED <<bimpl, btext, unit, btokens, level, bresult, bpass, bfirst, bpc,
                   notBeaut>>

\* deobfuscate.py beautify, one iteration of the loop at a keyword
DeobBeautifyKeyword ==
    /\ bimpl = "deobfuscate" /\ bpc = "loop" /\ bi < Len(btokens)
    /\ BeautToken.type = "KEYWORD"
    /\ bi' = bi + 1
    /\ \E n \in {LevelBefore(BeautToken.value, level)} :
           /\ bout' = Append(Indented(bout, unit, n), BeautToken.value)
                          \o (IF BeautToken.value \in DeobBreaking THEN << <<"\n">> >>
                              ELSE <<>>)
           /\ level' = IF BeautToken.value \in DeobIndenting THEN n + 1 ELSE n
    /\ UNCHANGED <<bimpl, btext, unit, btokens, bresult, bpass, bfirst, bpc, notBeaut>>

\* deobfuscate.py beautify, one iteration of the loop at a comment
DeobBeautifyComment ==
    /\ bimpl = "deobfuscate" /\ bpc = "loop" /\ bi < Len(btokens)
    /\ BeautToken.type = "COMMENT"
    /\ bi' = bi + 1
    /\ bout' = Indented(bout, unit, level) \o <<BeautToken.value, <<"\n">> >>
    /\ UNCHANGED <<bimpl, btext, unit, btokens, level, bresult, bpass, bfirst, bpc,
                   notBeaut>>

\* deobfuscate.py beautify, one iteration of the loop at another token
DeobBeautifyRegular ==
    /\ bimpl = "deobfuscate" /\ bpc = "loop" /\ bi < Len(btokens)
    /\ BeautToken.type \notin {"KEYWORD", "COMMENT"}
    /\ bi' = bi + 1
    /\ bout' = Append(Indented(bout, unit, level), BeautToken.value)
                   \o (IF DeobSpaceAfter(btokens, bi + 1) THEN << <<" ">> >> ELSE <<>>)
    /\ UNCHANGED <<bimpl, btext, unit, btokens, level, bresult, bpass, bfirst, bpc,
                   notBeaut>>

\* the loop has ended: the output is joined, cleaned and returned
BeautifyReturn ==
    /\ bpc = "loop" /\ bi >= Len(btokens)
    /\ bresult' = Finish(bout)
    /\ bpc' = "done"
    /\ UNCHANGED <<bimpl, btext, unit, btokens, bi, level, bout, bpass, bfirst, notBeaut>>

\* beautify is called again on the text it returned, with the same indent
\* unit: beautify.py makes a new LuaBeautifier, the LuaBeautifier of
\* deobfuscate.py is the same object
BeautifyAgain ==
    /\ bpc = "done" /\ bpass = 1
    /\ bfirst' = bresult
    /\ btext' = bresult
    /\ bpass' = 2
    /\ bpc' = "tokenize"
    /\ UNCHANGED <<bimpl, unit, btokens, bi, level, bout, bresult, notBeaut>>

BeautNext ==
    \/ BeautifyTokenize
    \/ BeautifyNewline
    \/ BeautifyComment
    \/ BeautifyKeyword
    \/ BeautifyDefault
    \/ DeobBeautifyKeyword
    \/ DeobBeautifyComment
    \/ DeobBeautifyRegular
    \/ BeautifyReturn
    \/ BeautifyAgain

SpecBeaut == BeautInit /\ [][BeautNext]_vars

\* ------------------------------------------------- claims on the beautifier

\* C15: beautify of beautify.py, called on the text it has returned and with
\* the same indent unit, returns that text again.
C15_Idempotent ==
    (bimpl = "beautify" /\ bpass = 2 /\ bpc \in {"done", "raised"}) =>
        (bpc = "done" /\ bresult = bfirst)

\* C16: when the beautifier of beautify.py is at the start of a line of its
\* output and at a token that is no newline, the text it puts out begins with
\* the indent unit repeated depth times and then the token, depth being the level at the
\* token: the level lowered by one (not below 0) at `end`, `else`, `elseif`,
\* `until`, the level as it is at every other token.
C16_LineIndentation ==
    [][(/\ bimpl = "beautify" /\ bpc = "loop" /\ bi < Len(btokens)
        /\ btokens[bi + 1].type # "NEWLINE"
        /\ (bout = <<>> \/ bout[Len(bout)] = <<"\n">>)) =>
           LET tok == btokens[bi + 1]
               closer == tok.type = "KEYWORD" /\
                         tok.value \in {<<"e","n","d">>, <<"e","l","s","e">>,
                                        <<"e","l","s","e","i","f">>, <<"u","n","t","i","l">>}
               depth == IF closer /\ level > 0 THEN level - 1 ELSE level
               start == Flatten([k \in 1..depth |-> unit]) \o tok.value
               before == Len(Flatten(bout))
           IN  /\ Len(Flatten(bout')) >= before + Len(start)
               /\ SubSeq(Flatten(bout'), before + 1, before + Len(start)) = start]_vars

\* ------------------------------------------------ claims on the depth counters

\* a call of BlockEngine.process or of one of the two beautifiers
DepthInit == BlockInit \/ BeautInit

DepthNext == BlockNext \/ BeautNext

SpecDepth == DepthInit /\ [][DepthNext]_vars

\* C13: in every state BlockEngine.indent and LuaBeautifier.level are at
\* least 0, and so is every depth that BlockEngine.process has recorded.
C13_DepthNonNegative ==
    /\ indent >= 0
    /\ level >= 0
    /\ \A k \in 1..Len(output) : output[k][3] >= 0

\* C13: process has passed two closers with no opener before them, both
\* recorded at depth 0, and the depth is 0
C13_Witness ==
    /\ epc = "loop" /\ index = 2
    /\ etokens[1].value = <<"e","n","d">> /\ etokens[2].value = <<"u","n","t","i","l">>
    /\ output[1][3] = 0 /\ output[2][3] = 0
    /\ indent = 0

\* ------------------------------------- state of the calls of the single passes

\* string literals: plain ones in both quote styles, one with a decimal
\* escape, one with a hexadecimal escape, one that is no Python literal
ChainLiterals ==
    { <<"\"","a","\"">>, <<"'","b","'">>, <<"\"","\\","6","5","\"">>,
      <<"\"","\\","x","4","1","\"">>, <<"\"","\\","N","\"">> }

\* the literals of a sequence joined by a `..`
RECURSIVE ChainText(_, _)
ChainText(parts, joiner) ==
    IF Len(parts) = 1 THEN parts[1]
    ELSE parts[1] \o joiner \o ChainText(Tail(parts), joiner)

ChainJoiners == {<<".", ".">>, <<" ", ".", ".", " ">>}

\* "a" .. "b" .. "c"
MergeExample ==
    ChainText(<< <<"\"","a","\"">>, <<"\"","b","\"">>, <<"\"","c","\"">> >>,
              <<" ", ".", ".", " ">>)

ChainParts == SeqsUpTo(ChainLiterals, MaxChain) \ {<<>>}

\* chains of literals, alone and followed by `.. x`
MergeInputs ==
    {ChainText(parts, joiner) \o rest :
        parts \in ChainParts, joiner \in ChainJoiners,
        rest \in {<<>>, <<" ", ".", ".", " ", "x">>}}
        \cup {MergeExample}

\* the operands and the operators of the expressions
FoldOperands == {<<"0">>, <<"1">>, <<"2">>, <<"4">>, <<"5">>, <<"1", ".", "5">>}
FoldOperators == {<<"+">>, <<"-">>, <<"*">>, <<"/">>, <<"%">>, <<"^">>, <<" ", "+", " ">>}

\* a power or a quotient whose right operand is 1.5 is a float that has no
\* short decimal form
ShortFloat(op, b) == ~(op \in {<<"^">>, <<"/">>} /\ b = <<"1", ".", "5">>)

\* expressions: an operand, two operands with an operator, and two with a
\* parenthesized operand
FoldExprs ==
    FoldOperands
        \cup {e[1] \o e[2] \o e[3] :
                e \in {f \in FoldOperands \X FoldOperators \X FoldOperands :
                          ShortFloat(f[2], f[3])}}
        \cup { <<"(", "1", "+", "2", ")", "*", "4">>, <<"2", "*", "(", "4", "-", "1", ")">> }

\* `(expr)`, `x = expr`, and `x = expr` with a line after it
Paren(e) == <<"(">> \o e \o <<")">>
Assign(e) == <<"x", " ", "=", " ">> \o e
NextLine == <<"\n", "y", " ", "=", " ", "f", "(", ")">>
\* the call `f(expr)` and the difference `x-(expr)`
CallOf(e) == <<"f">> \o Paren(e)
MinusOf(e) == <<"x", "-">> \o Paren(e)

FoldInputs ==
    {Paren(e) : e \in FoldExprs} \cup {Assign(e) : e \in FoldExprs}
        \cup {Assign(e) \o NextLine : e \in FoldExprs}
        \cup {CallOf(e) : e \in FoldExprs} \cup {MinusOf(e) : e \in FoldExprs}
        \cup { <<"x", " ", "=", " ", "y", " ", "+", " ", "1">> }

\* what the content of a literal is put together from: a letter, the three
\* escapes of decode_escapes, escapes of one character, a backslash that is
\* followed by digits, a quote of the other style, and `\N`
EscapePieces ==
    { <<"a">>, <<"\\", "x", "4", "1">>, <<"\\", "6", "5">>, <<"\\", "1", "0", "4">>,
      <<"\\", "u", "{", "4", "1", "}">>, <<"\\", "n">>, <<"\\", "\\">>, <<"6", "5">>,
      <<"\\", "N">>, <<"Q">> }

\* the piece Q stands for the quote of the other style
Quoted(q, content) ==
    <<q>> \o [k \in 1..Len(content) |->
                 IF content[k] = "Q" THEN (IF q = "\"" THEN "'" ELSE "\"") ELSE content[k]]
         \o <<q>>

\* literals alone and inside a statement
LiteralInputs ==
    {before \o Quoted(q, Flatten(ps)) :
        q \in Quotes, ps \in SeqsUpTo(EscapePieces, MaxEscapes),
        before \in {<<>>, <<"x", " ", "=", " ">>}}

\* arguments of string.char with the code they stand for, -1 for one that is
\* no integer: H, i, a double quote, a backslash, a newline, A in hex, a
\* name, a fraction
CodeArgs ==
    { [text |-> <<"7", "2">>, code |-> 72], [text |-> <<"1", "0", "5">>, code |-> 105],
      [text |-> <<"3", "4">>, code |-> 34], [text |-> <<"9", "2">>, code |-> 92],
      [text |-> <<"1", "0">>, code |-> 10], [text |-> <<"0", "x", "4", "1">>, code |-> 65],
      [text |-> <<"x">>, code |-> -1], [text |-> <<"6", "5", ".", "5">>, code |-> -1] }

CodeLists == SeqsUpTo(CodeArgs, MaxCodes) \ {<<>>}

\* the texts of a sequence joined by the separator
RECURSIVE JoinTexts(_, _)
JoinTexts(texts, sep) ==
    IF texts = <<>> THEN <<>>
    ELSE IF Len(texts) = 1 THEN texts[1]
    ELSE texts[1] \o sep \o JoinTexts(Tail(texts), sep)

\* string.char(c1, ..., cn)
CharCall(args) ==
    <<"s","t","r","i","n","g",".","c","h","a","r","(">>
        \o JoinTexts([k \in 1..Len(args) |-> args[k].text], <<",", " ">>) \o <<")">>

\* calls alone and as the right side of an assignment
CharCallInputs ==
    {before \o CharCall(args) :
        args \in CodeLists, before \in {<<>>, <<"x", " ", "=", " ">>}}

PassInit ==
    /\ \/ xpass = "merge_string_concat" /\ xin \in MergeInputs /\ xpc = "loop"
       \/ xpass = "decode_char_calls" /\ xin \in CharCallInputs /\ xpc = "call"
       \/ xpass = "fold_constants" /\ xin \in FoldInputs /\ xpc = "call"
       \/ xpass = "process_string_literals" /\ xin \in LiteralInputs /\ xpc = "call"
    /\ xcode = xin
    /\ xprev = NoText
    /\ iterations = 0
    /\ TokIdle /\ MinIdle /\ RenIdle /\ PropIdle /\ DeobIdle /\ BlockIdle /\ BeautIdle /\ ScopeIdle /\ NumIdle

\* one iteration of `while prev != code and iterations < 100`
MergeIterate ==
    /\ xpass = "merge_string_concat" /\ xpc = "loop"
    /\ xprev # xcode /\ iterations < MaxMergeIterations
    /\ xprev' = xcode
    /\ xcode' = MergePairs(xcode)
    /\ iterations' = iterations + 1
    /\ UNCHANGED <<xpass, xin, xpc, notPass>>

\* the loop of merge_string_concat ends, `return code`
MergeReturn ==
    /\ xpass = "merge_string_concat" /\ xpc = "loop"
    /\ ~(xprev # xcode /\ iterations < MaxMergeIterations)
    /\ xpc' = "done"
    /\ UNCHANGED <<xpass, xin, xcode, xprev, iterations, notPass>>

\* ExpressionEvaluator.fold_constants(code)
FoldConstants ==
    /\ xpass = "fold_constants" /\ xpc = "call"
    /\ xcode' = fold_constants(xcode)
    /\ xpc' = "done"
    /\ UNCHANGED <<xpass, xin, xprev, iterations, notPass>>

\* StringDecoder.process_string_literals(code)
ProcessStringLiterals ==
    /\ xpass = "process_string_literals" /\ xpc = "call"
    /\ xcode' = process_string_literals(xcode)
    /\ xpc' = "done"
    /\ UNCHANGED <<xpass, xin, xprev, iterations, notPass>>

\* Phase 1 of deobfuscate_internal, the re.sub over string.char(...)
DecodeCharCodes ==
    /\ xpass = "decode_char_calls" /\ xpc = "call"
    /\ xcode' = DecodeCharCalls(xcode)
    /\ xpc' = "done"
    /\ UNCHANGED <<xpass, xin, xprev, iterations, notPass>>

PassNext ==
    \/ DecodeCharCodes
    \/ MergeIterate
    \/ MergeReturn
    \/ FoldConstants
    \/ ProcessStringLiterals

SpecPass == PassInit /\ [][PassNext]_vars

\* ------------------------------------------ the string a Lua literal denotes

\* the one-character escapes of Lua
LuaEscape ==
    [c \in {"n", "t", "r", "a", "b", "f", "v", "\\", "\"", "'", "\n"} |->
        IF c = "n" THEN "\n" ELSE IF c = "t" THEN "\t" ELSE IF c = "r" THEN "\r"
        ELSE IF c = "a" THEN Chr(7) ELSE IF c = "b" THEN Chr(8)
        ELSE IF c = "f" THEN Chr(12) ELSE IF c = "v" THEN Chr(11) ELSE c]

LuaHexChars == {HexDigits[k] : k \in 1..16} \cup {UpperHex[k] : k \in 1..16}

Cons(c, r) == IF r.ok THEN [ok |-> TRUE, text |-> <<c>> \o r.text] ELSE Failed

RECURSIVE LuaContent(_, _, _)
\* the characters the body of a short literal in the quote q denotes from
\* offset p on, as Lua reads it: `\ddd` is decimal, `\xHH` hexadecimal,
\* `\u{X}` a code point (below 128 here, where it is one byte), `\z` skips
\* whitespace; an unknown escape, a bare quote q and a bare newline are errors
LuaContent(body, p, q) ==
    IF p >= Len(body) THEN [ok |-> TRUE, text |-> <<>>]
    ELSE IF body[p + 1] \in {q, "\n"} THEN Failed
    ELSE IF body[p + 1] # "\\" THEN Cons(body[p + 1], LuaContent(body, p + 1, q))
    ELSE IF p + 1 >= Len(body) THEN Failed
    ELSE IF body[p + 2] \in DigitChars
    THEN LET n == RunLength(body, p + 1, DigitChars, 3)
             v == DigitsValue(Slice(body, p + 1, p + 1 + n), 10)
         IN  IF v > 255 THEN Failed ELSE Cons(Chr(v), LuaContent(body, p + 1 + n, q))
    ELSE IF body[p + 2] = "x"
    THEN IF AllHex(body, p + 2, 2)
         THEN Cons(Chr(DigitsValue(Slice(body, p + 2, p + 4), 16)),
                   LuaContent(body, p + 4, q))
         ELSE Failed
    ELSE IF body[p + 2] = "u"
    THEN LET e == ScanWhile(body, p + 3, LuaHexChars)
             v == DigitsValue(Slice(body, p + 3, e), 16)
         IN  IF /\ p + 2 < Len(body) /\ body[p + 3] = "{"
                /\ e > p + 3 /\ e < Len(body) /\ body[e + 1] = "}" /\ v < 128
             THEN Cons(Chr(v), LuaContent(body, e + 1, q))
             ELSE Failed
    ELSE IF body[p + 2] = "z"
    THEN LuaContent(body, ScanWhile(body, p + 2, PyWhitespace), q)
    ELSE IF body[p + 2] \in DOMAIN LuaEscape
    THEN Cons(LuaEscape[body[p + 2]], LuaContent(body, p + 2, q))
    ELSE Failed

\* a text that begins and ends with the same quote
IsQuoted(t) == Len(t) >= 2 /\ t[1] \in Quotes /\ t[Len(t)] = t[1]

\* the string the literal t denotes; not ok when t is not one Lua literal
LuaValue(t) ==
    IF IsQuoted(t) THEN LuaContent(SubSeq(t, 2, Len(t) - 1), 0, t[1]) ELSE Failed

\* the strings of a sequence of literals in order, one after the other
RECURSIVE Concatenated(_)
Concatenated(parts) ==
    IF parts = <<>> THEN <<>>
    ELSE LuaValue(parts[1]).text \o Concatenated(Tail(parts))

\* ------------------------------------------------ merge_string_concat (C17)

\* C17: merge_string_concat turns a chain of k >= 2 quoted string literals
\* joined by `..` into one string literal whose content is the contents of
\* the k literals in order, and its loop ends when a pass changes nothing or
\* after at most 100 passes.
C17_ChainMerged ==
    /\ iterations <= MaxMergeIterations
    /\ (xpass = "merge_string_concat" /\ xpc = "done") =>
          /\ xprev = xcode \/ iterations = MaxMergeIterations
          /\ \A parts \in ChainParts, joiner \in ChainJoiners :
                (/\ Len(parts) >= 2
                 /\ \A k \in 1..Len(parts) : LuaValue(parts[k]).ok
                 /\ xin = ChainText(parts, joiner))
                    => /\ LuaValue(xcode).ok
                       /\ LuaValue(xcode).text = Concatenated(parts)

\* ----------------------------------------------------- fold_constants (C18)

\* the characters the foldable expressions are built from, and blanks
NumericChars == DigitChars \cup {"+", "-", "*", "/", "%", "^", "(", ")", ".", " "}

\* the expression has a value
Foldable(e) ==
    (\A k \in 1..Len(e) : e[k] \in NumericChars) /\ evaluate_numeric(e).ok

\* what replaces an expression: its value when it has one, else itself
Folded(e) == IF Foldable(e) THEN evaluate_numeric(e).text ELSE e

\* C18: constant folding replaces a parenthesized expression, and the right
\* side of a `name = expr` assignment, built from digits, `+ - * / % ^` and
\* parentheses by its value; any other expression is left untouched.
C18_ValueReplaces ==
    (xpass = "fold_constants" /\ xpc = "done") =>
        \A e \in FoldExprs :
            /\ xin = Paren(e) => xcode = IF Foldable(e) THEN Folded(e) ELSE xin
            /\ xin = Assign(e) => xcode = Assign(Folded(e))
            /\ xin = Assign(e) \o NextLine => xcode = Assign(Folded(e)) \o NextLine

\* offsets where a comment `--` starts in a text without strings
CommentStarts(t) == {k \in 1..(Len(t) - 1) : t[k] = "-" /\ t[k + 1] = "-"}

\* C27: constant folding keeps the parentheses of a call f(E) with a numeric
\* argument E, and does not put a negative value where its sign joins the
\* operator before the parentheses.
C27_CallKeepsParentheses ==
    (xpass = "fold_constants" /\ xpc = "done") =>
        \A e \in FoldExprs :
            /\ xin = CallOf(e) =>
                    /\ Len(xcode) >= 3
                    /\ xcode[1] = "f" /\ xcode[2] = "(" /\ xcode[Len(xcode)] = ")"
            /\ xin = MinusOf(e) => CommentStarts(xcode) = {}

\* C28: folding `name = expr` changes the characters of expr only; the line
\* break after the expression and the statement on the next line are kept.
C28_NextLineKept ==
    (xpass = "fold_constants" /\ xpc = "done") =>
        \A e \in FoldExprs :
            xin = Assign(e) \o NextLine =>
                /\ Len(xcode) > Len(NextLine)
                /\ SubSeq(xcode, Len(xcode) - Len(NextLine) + 1, Len(xcode)) = NextLine

\* -------------------------------------- process_string_literals (C19, C20)

\* C19: escape normalization rewrites a quoted literal to a literal that
\* denotes the same Lua string.
C19_SameLuaString ==
    (xpass = "process_string_literals" /\ xpc = "done" /\ LuaValue(xin).ok) =>
        /\ LuaValue(xcode).ok
        /\ LuaValue(xcode).text = LuaValue(xin).text

\* C20: escape normalization keeps the quote characters of a literal, and
\* leaves a literal without escapes, and one that fails to parse, as it is.
C20_QuotesKept ==
    (xpass = "process_string_literals" /\ xpc = "done" /\ IsQuoted(xin)
        /\ StringEnd(xin, 0, FALSE) = Len(xin)) =>
        /\ IsQuoted(xcode) /\ xcode[1] = xin[1]
        /\ (\A k \in 1..Len(xin) : xin[k] # "\\") => xcode = xin
        /\ ~literal_eval_string(xin).ok => xcode = xin

\* ------------------------------------------------- string.char decode (C21)

\* C21: Phase 1 replaces a call string.char(c1, ..., cn) whose arguments are
\* all integer codes by a string literal that denotes exactly the characters
\* with these codes, and leaves the call as it is when an argument is no
\* integer code.
C21_CharCallDecoded ==
    (xpass = "decode_char_calls" /\ xpc = "done") =>
        \A args \in CodeLists :
            xin = CharCall(args) =>
                IF \A k \in 1..Len(args) : args[k].code >= 0
                THEN /\ LuaValue(xcode).ok
                     /\ LuaValue(xcode).text = [k \in 1..Len(args) |-> Chr(args[k].code)]
                ELSE xcode = xin

\* --------------------------------------- state of the calls of analyze_scope

\* what the sources of the token streams are put together from: declarations
\* of one name and of lists, one with a name of ROBLOX_GLOBALS, openers and
\* closers of blocks, a local function, and an assignment to other names
ScopeFragments ==
    { <<" ","l","o","c","a","l"," ","a">>,
      <<" ","l","o","c","a","l"," ","b",","," ","g","a","m","e">>,
      <<" ","l","o","c","a","l"," ","c"," ",",","d">>,
      <<" ","d","o">>, <<" ","r","e","p","e","a","t">>, <<" ","f","u","n","c","t","i","o","n">>,
      <<" ","e","n","d">>, <<" ","u","n","t","i","l">>,
      <<" ","l","o","c","a","l"," ","f","u","n","c","t","i","o","n"," ","f">>,
      <<" ","x"," ","="," ","a">> }

ScopeInputs ==
    {Tokenize("minify", Flatten(fs)).tokens : fs \in SeqsUpTo(ScopeFragments, MaxScopeFragments)}

ScopeInit ==
    /\ stokens \in ScopeInputs
    /\ si = 0
    /\ scopes = << {} >>
    /\ all_locals = {}
    /\ spc = "loop"
    /\ TokIdle /\ MinIdle /\ RenIdle /\ PropIdle /\ DeobIdle /\ BlockIdle /\ BeautIdle /\ PassIdle /\ NumIdle

\* one iteration of `while i < len(tokens)`
ScopeStep ==
    /\ spc = "loop" /\ si < Len(stokens)
    /\ scopes' = AnalyzeToken(stokens, si + 1, scopes)
    /\ si' = si + 1
    /\ UNCHANGED <<stokens, all_locals, spc, notScope>>

\* the loop "Collect all local variables", `return all_locals`
ScopeReturn ==
    /\ spc = "loop" /\ si >= Len(stokens)
    /\ all_locals' = AllLocals(scopes)
    /\ spc' = "done"
    /\ UNCHANGED <<stokens, si, scopes, notScope>>

ScopeNext ==
    \/ ScopeStep
    \/ ScopeReturn

SpecScope == ScopeInit /\ [][ScopeNext]_vars

\* ------------------------------------------------- claims on analyze_scope

\* the tokens of toks from index i to index k that are no whitespace
Listed(toks, i, k) ==
    SelectSeq(SubSeq(toks, i, k), LAMBDA t : t.type # "WHITESPACE")

\* the token of index k is a name of the list of the `local` of index i: the
\* tokens between them are names and commas in turn
InListOf(toks, i, k) ==
    /\ toks[i].type = "KEYWORD" /\ toks[i].value = <<"l","o","c","a","l">>
    /\ toks[k].type = "IDENTIFIER"
    /\ LET l == Listed(toks, i + 1, k)
       IN  /\ Len(l) % 2 = 1
           /\ \A j \in 1..Len(l) :
                  IF j % 2 = 1 THEN l[j].type = "IDENTIFIER" ELSE l[j].value = <<",">>

\* the names of the lists of the `local` tokens of the indices 1..n that are
\* not on the allow-list
LocalsUpTo(toks, n) ==
    {toks[k].value : k \in {j \in 1..Len(toks) : \E i \in 1..n : i < j /\ InListOf(toks, i, j)}}
        \ ROBLOX_GLOBALS

TokenOffset(toks, k) == Len(JoinValues(SubSeq(toks, 1, k - 1)))

\* C23: in every tokenizer a token `.` does not stand where the text has
\* `..`, and a token `..` does not stand where the text has `...`; the text
\* `...` gives the one token `...`.
C23_LongestOperator ==
    status = "done" =>
        /\ code = <<".", ".", ".">> =>
               Len(tokens) = 1 /\ tokens[1].value = <<".", ".", ".">>
        /\ \A k \in 1..Len(tokens) :
               /\ tokens[k].value = <<".">> =>
                      ~StartsAt(code, TokenOffset(tokens, k), <<".", ".">>)
               /\ tokens[k].value = <<".", ".">> =>
                      ~StartsAt(code, TokenOffset(tokens, k), <<".", ".", ".">>)

\* --------------------------------------------- the mode of BlockEngine (C24)

\* C24: the mode of BlockEngine is normal at the start and safe exactly from
\* the first UNKNOWN token that process has handled on, up to and including
\* the end of process.
C24_SafeModeSticky ==
    epc \in {"loop", "done"} =>
        /\ mode \in {"normal", "safe"}
        /\ mode = "safe" <=> \E k \in 1..index : etokens[k].type = "UNKNOWN"

\* C24: process has returned for a stream that begins with an UNKNOWN token
\* and goes on with two tokens that are not UNKNOWN, and the mode is safe
C24_Witness ==
    /\ epc = "done" /\ Len(etokens) = 3 /\ mode = "safe"
    /\ etokens[1].type = "UNKNOWN"
    /\ etokens[2].type = "KEYWORD" /\ etokens[3].type = "IDENTIFIER"

\* ------------------------------------ state of the calls of optimize_numbers

\* what the literals are made of
NumAlphabet == {"0", "1", "5", ".", "_", "e", "x"}

\* a literal, or a name, as the argument of a call: the tokenizer of
\* minify.py raises on a number at the end of the text
NumInputs ==
    {<<"f", "(">> \o lit \o <<")">> : lit \in SeqsUpTo(NumAlphabet, MaxDigits) \ {<<>>}}

NumInit ==
    /\ ntext \in NumInputs
    /\ ntokens = <<>>
    /\ nresult = <<>>
    /\ npc = "tokenize"
    /\ TokIdle /\ MinIdle /\ RenIdle /\ PropIdle /\ DeobIdle /\ BlockIdle /\ BeautIdle /\ PassIdle /\ ScopeIdle

\* tokens = LuaTokenizer(code).tokenize()
NumTokenize ==
    /\ npc = "tokenize"
    /\ \E r \in {Tokenize("minify", ntext)} :
          IF r.raised
          THEN npc' = "raised" /\ UNCHANGED ntokens
          ELSE npc' = "optimize" /\ ntokens' = r.tokens
    /\ UNCHANGED <<ntext, nresult, notNum>>

\* LuaMinifier.optimize_numbers(tokens)
NumOptimize ==
    /\ npc = "optimize"
    /\ nresult' = optimize_numbers(ntokens)
    /\ npc' = "done"
    /\ UNCHANGED <<ntext, ntokens, notNum>>

NumNext ==
    \/ NumTokenize
    \/ NumOptimize

SpecNum == NumInit /\ [][NumNext]_vars

\* ----------------------------------------------- the number a literal denotes

\* the digits of the base in a text, all other characters left out
DigitsOf(t, base) ==
    SelectSeq(t, LAMBDA c : IsHexDigit(c) /\ HexVal(c) < base)

\* m * base^e with m not divisible by the base, and <<0, 0>> for zero
RECURSIVE Normal(_, _, _)
Normal(m, e, base) ==
    IF m = 0 THEN <<0, 0>>
    ELSE IF m % base = 0 THEN Normal(m \div base, e + 1, base)
    ELSE <<m, e>>

\* a decimal literal without exponent: digits, at most one point, at least one
\* digit; `_` may stand between the characters
IsDecimal(t) ==
    /\ \A k \in 1..Len(t) : t[k] \in DigitChars \cup {".", "_"}
    /\ Len(SelectSeq(t, LAMBDA c : c = ".")) <= 1
    /\ DigitsOf(t, 10) # <<>>
    /\ t[1] # "_"

\* the number a decimal literal without exponent denotes
DecimalValue(t) ==
    LET u == Remove(t, "_")
        p == ScanUntil(u, 0, {"."})
    IN  Normal(DigitsValue(DigitsOf(u, 10), 10), -(Len(u) - Min(Len(u), p + 1)), 10)

\* ---------------------------------------------- claims on optimize_numbers

\* C25: optimize_numbers gives for every NUMBER token a token whose value is
\* not empty and, for a decimal literal, denotes the same number; every other
\* token is left as it is.
C25_SameNumber ==
    npc = "done" =>
        /\ Len(nresult) = Len(ntokens)
        /\ \A k \in 1..Len(ntokens) :
               IF ntokens[k].type = "NUMBER"
               THEN /\ nresult[k].type = "NUMBER"
                    /\ nresult[k].value # <<>>
                    /\ IsDecimal(ntokens[k].value) =>
                          /\ IsDecimal(nresult[k].value)
                          /\ DecimalValue(nresult[k].value) = DecimalValue(ntokens[k].value)
               ELSE nresult[k] = ntokens[k]

====
